---- MODULE Spec2Model ----
(***************************************************************************)
(* A model of the CUP TypeScript SDK: the Session (capture, execute,       *)
(* pressKeys, batchExecute), the ActionExecutor and the tree capture of    *)
(* the four platform adapters (windows, macos, linux, web).                *)
(*                                                                         *)
(* An element ID "e<n>" is modelled by the number n.  A native element is  *)
(* identified by <<window, index>>, the index being its position in the    *)
(* pre-order walk of the window's native accessibility tree.               *)
(***************************************************************************)
EXTENDS Integers, Sequences, FiniteSets, TLC

\* ---------------------------------------------------------------------------
\* Bounds of the model
\* ---------------------------------------------------------------------------

\* Number of top-level windows on the desktop.
NumWindows == 2

\* Number of capture() calls made on the session.
MaxCaptures == 2

\* Longest list of specs handed to batchExecute.
MaxBatchLen == 2

\* Largest number of nodes of a tree handed to pruneTree.
MaxTreeNodes == 3

\* Largest number of nodes of the generated trees handed to serializeCompact.
MaxEnvelopeNodes == 2

\* part_009: const SPARSE_TREE_THRESHOLD = 30
SPARSE_TREE_THRESHOLD == 30

\* Most pieces a key combo is split into.
MaxComboPieces == 3

\* CDP sockets the process connects, cdpSend() calls it makes, and event
\* notifications the browser emits.
NumSockets == 2
MaxRequests == 3
MaxEvents == 1

\* Concurrent callers of getAxHelper() / getUiaHelper().
MaxCallers == 3

\* Longest node stream handed to buildTreeFromFlat, and the deepest node in it.
MaxStreamLen == 5
MaxDepth == 2

\* ---------------------------------------------------------------------------
\* The native world the adapters read
\* ---------------------------------------------------------------------------

Platforms == {"windows", "macos", "linux", "web"}

\* getForegroundWindow(): the focused window.
ForegroundWin == 1

\* getAllWindows(): every window, in enumeration order.
AllWindows == [i \in 1..NumWindows |-> i]

NoBounds == <<>>

RawNode(d, role, name, bounds, actions, states, backend, skip) ==
    [d |-> d, role |-> role, name |-> name, bounds |-> bounds,
     actions |-> actions, states |-> states, backend |-> backend, skip |-> skip]

NoClip == <<>>

\* A CupNode.  src is not a field of the program's node: it names the native
\* element <<capture, window, index>> the node was built from.
CupNode(id, raw, src) ==
    [id |-> id, role |-> raw.role, name |-> raw.name, bounds |-> raw.bounds,
     actions |-> raw.actions, states |-> raw.states, src |-> src,
     clipped |-> NoClip, children |-> <<>>]

\* The native accessibility tree of window w as the depth-annotated pre-order
\* stream the platform yields, already mapped to canonical roles.  backend is
\* CDP's optional backendDOMNodeId (FALSE: absent), skip a CDP role of
\* SKIP_ROLES; both only matter on web.
NativeFlat(p, w) ==
    IF w % 2 = 1
    THEN << RawNode(0, "window", "Win", <<0, 0, 200, 100>>, <<>>, {}, TRUE, FALSE),
            RawNode(1, "button", "OK", <<10, 10, 80, 30>>, <<"click">>, {}, TRUE, FALSE) >>
    ELSE IF p = "web"
    THEN << RawNode(0, "document", "App", <<0, 0, 200, 100>>, <<>>, {}, TRUE, FALSE),
            RawNode(1, "none", "", NoBounds, <<>>, {}, TRUE, TRUE),
            RawNode(2, "text", "hello", <<0, 0, 50, 10>>, <<>>, {}, FALSE, FALSE) >>
    ELSE << RawNode(0, "window", "App", <<0, 0, 200, 100>>, <<>>, {}, TRUE, FALSE),
            RawNode(1, "scrollbar", "", <<190, 0, 10, 100>>, <<"scroll">>, {}, TRUE, FALSE) >>

\* A native tree of as many nodes as SPARSE_TREE_THRESHOLD, with or without
\* a browser's chrome (a ToolBar) and its Document.
LargeFlat(chrome, document) ==
    [i \in 1..SPARSE_TREE_THRESHOLD |->
        IF i = 1 THEN RawNode(0, "window", "App", <<0, 0, 200, 100>>, <<>>, {}, TRUE, FALSE)
        ELSE IF i = 2
        THEN RawNode(1, IF chrome THEN "toolbar" ELSE "group", "", <<0, 0, 200, 10>>,
                     <<>>, {}, TRUE, FALSE)
        ELSE IF i = 3
        THEN RawNode(1, IF document THEN "document" ELSE "group", "", <<0, 10, 200, 90>>,
                     <<>>, {}, TRUE, FALSE)
        ELSE RawNode(2, "text", "hello", <<0, 10, 50, 10>>, <<>>, {}, TRUE, FALSE)]

\* ---------------------------------------------------------------------------
\* Trees
\* ---------------------------------------------------------------------------

\* parent.children.push(node) for the node reached by path (a sequence of
\* child positions from the roots); roots.push(node) for the empty path.
RECURSIVE AttachAt(_, _, _)
AttachAt(forest, path, node) ==
    IF path = <<>> THEN Append(forest, node)
    ELSE [forest EXCEPT ![Head(path)].children =
              AttachAt(forest[Head(path)].children, Tail(path), node)]

\* A loop that pops only the entries that are deeper than the current node.
RECURSIVE PopStackDeeper(_, _)
PopStackDeeper(stack, depth) ==
    IF stack # <<>> /\ stack[Len(stack)].depth > depth
    THEN PopStackDeeper(SubSeq(stack, 1, Len(stack) - 1), depth)
    ELSE stack

\* while (stack.length > 0 && stack[top].depth >= depth) stack.pop()
RECURSIVE PopStack(_, _)
PopStack(stack, depth) ==
    IF stack # <<>> /\ stack[Len(stack)].depth >= depth
    THEN PopStack(SubSeq(stack, 1, Len(stack) - 1), depth)
    ELSE stack

RECURSIVE NumChildrenAt(_, _)
NumChildrenAt(forest, path) ==
    IF path = <<>> THEN Len(forest)
    ELSE NumChildrenAt(forest[Head(path)].children, Tail(path))

\* The loop of buildTreeFromFlat from position i on: nodes[i] is the CupNode
\* of the flat entry with depth depths[i]; a stack entry holds the path of a
\* node in the forest built so far, and its depth.
RECURSIVE BuildLoop(_, _, _, _, _)
BuildLoop(nodes, depths, i, stack, roots) ==
    IF i > Len(nodes) THEN roots
    ELSE LET st == PopStack(stack, depths[i])
             parentPath == IF st = <<>> THEN <<>> ELSE st[Len(st)].path
             grown == AttachAt(roots, parentPath, nodes[i])
             myPath == Append(parentPath, NumChildrenAt(grown, parentPath))
         IN  BuildLoop(nodes, depths, i + 1,
                       Append(st, [path |-> myPath, depth |-> depths[i]]), grown)

BuildTreeFromFlat(nodes, depths) == BuildLoop(nodes, depths, 1, <<>>, <<>>)

\* The nodes of a forest in pre-order.
RECURSIVE PreOrder(_)
PreOrder(forest) ==
    IF forest = <<>> THEN <<>>
    ELSE <<Head(forest)>> \o PreOrder(Head(forest).children) \o PreOrder(Tail(forest))

TreeIds(forest) == [i \in 1..Len(PreOrder(forest)) |-> PreOrder(forest)[i].id]

Range(f) == {f[x] : x \in DOMAIN f}

RECURSIVE countNodes(_)
countNodes(nodes) ==
    IF nodes = <<>> THEN 0
    ELSE 1 + countNodes(Head(nodes).children) + countNodes(Tail(nodes))

\* ---------------------------------------------------------------------------
\* pruneTree
\* ---------------------------------------------------------------------------

CHROME_ROLES == {"scrollbar", "separator", "titlebar", "tooltip", "status"}

COLLAPSIBLE_ROLES == {"region", "document", "main", "complementary", "navigation",
                      "search", "banner", "contentinfo", "form"}

NoParent == <<>>

NoViewport == <<>>

hasMeaningfulActions(node) ==
    \E i \in DOMAIN node.actions : node.actions[i] # "focus"

\* shouldSkip with the chrome roles as its only rule.
shouldSkipChrome(node, parent, siblings) == node.role \in CHROME_ROLES

shouldSkip(node, parent, siblings) ==
    \/ node.role \in CHROME_ROLES
    \/ node.bounds # NoBounds /\ (node.bounds[3] = 0 \/ node.bounds[4] = 0)
    \/ "offscreen" \in node.states /\ ~hasMeaningfulActions(node)
    \/ node.role = "img" /\ node.name = ""
    \/ node.role = "text" /\ node.name = ""
    \/ node.role = "text" /\ parent # NoParent /\ parent[1].name # "" /\ siblings = 1

shouldHoist(node) ==
    \/ node.role = "generic" /\ node.name = ""
    \/ node.role = "region" /\ node.name = ""
    \/ node.role = "group" /\ node.name = "" /\ ~hasMeaningfulActions(node)

isOutsideViewport(cb, vp) ==
    \/ cb[1] + cb[3] <= vp[1]
    \/ cb[1] >= vp[1] + vp[3]
    \/ cb[2] + cb[4] <= vp[2]
    \/ cb[2] >= vp[2] + vp[4]

clipDirection(cb, vp) ==
    IF cb[2] + cb[4] <= vp[2] THEN "above"
    ELSE IF cb[2] >= vp[2] + vp[4] THEN "below"
    ELSE IF cb[1] + cb[3] <= vp[1] THEN "left"
    ELSE "right"

isScrollable(node) == \E i \in DOMAIN node.actions : node.actions[i] = "scroll"

Max(a, b) == IF a >= b THEN a ELSE b

Min(a, b) == IF a <= b THEN a ELSE b

intersectViewports(bounds, viewport) ==
    IF viewport = NoViewport THEN bounds
    ELSE LET x1 == Max(bounds[1], viewport[1])
             y1 == Max(bounds[2], viewport[2])
             x2 == Min(bounds[1] + bounds[3], viewport[1] + viewport[3])
             y2 == Min(bounds[2] + bounds[4], viewport[2] + viewport[4])
         IN  <<x1, y1, Max(0, x2 - x1), Max(0, y2 - y1)>>

NoneClipped == [above |-> 0, below |-> 0, left |-> 0, right |-> 0]

RECURSIVE pruneNode(_, _, _, _)
RECURSIVE HoistLoop(_, _, _, _)
RECURSIVE KeepLoop(_, _, _, _)

RECURSIVE HoistLoopUnshift(_, _, _, _)
\* The hoist loop with result.unshift in place of result.push.
HoistLoopUnshift(rest, parent, n, viewport) ==
    IF rest = <<>> THEN <<>>
    ELSE HoistLoopUnshift(Tail(rest), parent, n, viewport)
         \o pruneNode(Head(rest), parent, n, viewport)

\* for (const child of children) result.push(...pruneNode(child, parent, children.length, viewport))
HoistLoop(rest, parent, n, viewport) ==
    IF rest = <<>> THEN <<>>
    ELSE pruneNode(Head(rest), parent, n, viewport) \o HoistLoop(Tail(rest), parent, n, viewport)

\* The loop over the children of a kept node: the pruned children and the
\* clipped counters.
KeepLoop(rest, node, n, childViewport) ==
    IF rest = <<>> THEN [kept |-> <<>>, clipped |-> NoneClipped, hasClipped |-> FALSE]
    ELSE LET child == Head(rest)
             after == KeepLoop(Tail(rest), node, n, childViewport)
         IN  IF /\ childViewport # NoViewport
                /\ child.bounds # NoBounds
                /\ isOutsideViewport(child.bounds, childViewport)
             THEN LET dir == clipDirection(child.bounds, childViewport)
                  IN  [kept |-> after.kept,
                       clipped |-> [after.clipped EXCEPT ![dir] = @ + countNodes(<<child>>)],
                       hasClipped |-> TRUE]
             ELSE [after EXCEPT !.kept =
                       pruneNode(child, <<node>>, n, childViewport) \o after.kept]

pruneNode(node, parent, siblings, viewport) ==
    IF shouldHoist(node)
    THEN HoistLoop(node.children, parent, Len(node.children), viewport)
    ELSE IF shouldSkip(node, parent, siblings) THEN <<>>
    ELSE LET childViewport ==
                 IF isScrollable(node) /\ node.bounds # NoBounds
                 THEN intersectViewports(node.bounds, viewport)
                 ELSE viewport
             r == KeepLoop(node.children, node, Len(node.children), childViewport)
         IN  IF /\ Len(r.kept) = 1
                /\ node.role \in COLLAPSIBLE_ROLES
                /\ node.name = ""
                /\ ~hasMeaningfulActions(node)
             THEN r.kept
             ELSE << [node EXCEPT !.children = r.kept,
                                  !.clipped = IF r.hasClipped THEN r.clipped ELSE NoClip] >>

RECURSIVE pruneMinimalNode(_)
RECURSIVE MinimalLoop(_)

\* The kept children of pruneMinimalNode: those whose own result is not null.
MinimalLoop(rest) ==
    IF rest = <<>> THEN <<>>
    ELSE pruneMinimalNode(Head(rest)) \o MinimalLoop(Tail(rest))

\* <<>> stands for null, <<n>> for the pruned node n.
pruneMinimalNode(node) ==
    LET keptChildren == MinimalLoop(node.children)
    IN  IF hasMeaningfulActions(node) \/ keptChildren # <<>>
        THEN << [node EXCEPT !.children = keptChildren] >>
        ELSE <<>>

RECURSIVE StandardLoop(_, _, _)
StandardLoop(rest, n, viewport) ==
    IF rest = <<>> THEN <<>>
    ELSE pruneNode(Head(rest), NoParent, n, viewport) \o StandardLoop(Tail(rest), n, viewport)

Details == {"minimal", "standard", "full"}

\* screen is NoViewport when the caller passes none, as Session.capture does.
pruneTree(tree, detail, screen) ==
    IF detail = "full" THEN tree
    ELSE IF detail = "minimal" THEN MinimalLoop(tree)
    ELSE StandardLoop(tree, Len(tree), screen)

\* ---------------------------------------------------------------------------
\* The compact text serializer
\* ---------------------------------------------------------------------------

\* A string is handled through its length in UTF-16 code units; a line is the
\* sequence of its space-joined parts, a part the field it prints, its text
\* as a sequence of fragments, and its length.

\* "...".length for the strings that occur in nodes and envelopes.
StrLen(str) ==
    CASE str = "" -> 0
      [] str \in {"s"} -> 1
      [] str \in {"OK"} -> 2
      [] str \in {"Win", "App", "far", "img", "web", "bar", "xyz", "foo"} -> 3
      [] str \in {"text", "list"} -> 4
      [] str \in {"hello", "group", "click", "focus", "0.1.0", "enter"} -> 5
      [] str \in {"window", "button", "scroll"} -> 6
      [] str \in {"generic", "focused"} -> 7
      [] str \in {"listitem", "document"} -> 8
      [] str \in {"scrollbar", "offscreen"} -> 9

\* String(n).length
RECURSIVE NumLen(_)
NumLen(n) ==
    IF n < 0 THEN 1 + NumLen(-n)
    ELSE IF n < 10 THEN 1
    ELSE 1 + NumLen(n \div 10)

Part(field, text, len) == [field |-> field, text |-> text, len |-> len]

RECURSIVE JoinLen(_)
\* items.join(sep).length for a one-character separator.
JoinLen(items) ==
    IF items = << >> THEN 0
    ELSE IF Len(items) = 1 THEN StrLen(items[1])
    ELSE StrLen(items[1]) + 1 + JoinLen(Tail(items))

RECURSIVE SetToSeq(_)
\* The states array of a node, which the model holds as a set.
SetToSeq(S) ==
    IF S = {} THEN << >>
    ELSE LET x == CHOOSE y \in S : \A z \in S : StrLen(y) <= StrLen(z)
         IN  << x >> \o SetToSeq(S \ {x})

\* formatLine prints the bounds of every node that has bounds.  (value and
\* attributes are absent from the nodes of the model.)
formatLine(node) ==
    LET states == SetToSeq(node.states)
        actions == SelectSeq(node.actions, LAMBDA a : a # "focus")
        nameLen == IF StrLen(node.name) > 80 THEN 83 ELSE StrLen(node.name)
        b == node.bounds
    IN  << Part("id", << "[e", ToString(node.id), "]" >>, 3 + NumLen(node.id)),
           Part("role", << node.role >>, StrLen(node.role)) >>
        \o (IF node.name # "" THEN << Part("name", << node.name >>, nameLen + 2) >>
            ELSE << >>)
        \o (IF b # NoBounds
            THEN << Part("bounds",
                         << "@", ToString(b[1]), ",", ToString(b[2]), " ",
                            ToString(b[3]), "x", ToString(b[4]) >>,
                         4 + NumLen(b[1]) + NumLen(b[2]) + NumLen(b[3]) + NumLen(b[4])) >>
            ELSE << >>)
        \o (IF states # << >> THEN << Part("states", states, 2 + JoinLen(states)) >>
            ELSE << >>)
        \o (IF actions # << >> THEN << Part("actions", actions, 2 + JoinLen(actions)) >>
            ELSE << >>)

\* A line of the output: its indentation, its parts, and its length.
Line(indent, parts) == [indent |-> indent, parts |-> parts]

RECURSIVE PartsLen(_)
PartsLen(parts) ==
    IF parts = << >> THEN 0
    ELSE IF Len(parts) = 1 THEN parts[1].len
    ELSE parts[1].len + 1 + PartsLen(Tail(parts))

LineLen(line) == line.indent + PartsLen(line.parts)

RECURSIVE emitCompact(_, _)
RECURSIVE EmitLoop(_, _)

EmitLoop(children, depth) ==
    IF children = << >> THEN << >>
    ELSE emitCompact(Head(children), depth) \o EmitLoop(Tail(children), depth)

\* emitCompact(node, depth, lines, counter): the lines it pushes.  The hint
\* reads `# <total> more items — scroll <directions> to see`.
emitCompact(node, depth) ==
    LET c == node.clipped
        total == c.above + c.below + c.left + c.right
        dirs == (IF c.above > 0 THEN << "up" >> ELSE << >>)
                \o (IF c.below > 0 THEN << "down" >> ELSE << >>)
                \o (IF c.left > 0 THEN << "left" >> ELSE << >>)
                \o (IF c.right > 0 THEN << "right" >> ELSE << >>)
        dirsLen == (IF c.above > 0 THEN 2 ELSE 0) + (IF c.below > 0 THEN 4 ELSE 0)
                   + (IF c.left > 0 THEN 4 ELSE 0) + (IF c.right > 0 THEN 5 ELSE 0)
                   + (Len(dirs) - 1)
    IN  << Line(2 * depth, formatLine(node)) >>
        \o EmitLoop(node.children, depth + 1)
        \o (IF c # NoClip /\ total > 0
            THEN << Line(2 * (depth + 1),
                         << Part("hint", << ToString(total) >> \o dirs,
                                 2 + NumLen(total) + 21 + dirsLen + 7) >>) >>
            ELSE << >>)

MAX_OUTPUT_CHARS == 40000

\* The length of the notice appended to a truncated output.
TRUNCATION_NOTICE_LENGTH == 173

\* The header lines of serializeCompact, the empty line that ends them
\* included.  windowList is a sequence of [title, foreground] (<<>>: null)
\* whose titles are non-empty and shorter than the 50 characters printed.
HeaderLines(envelope, windowList, emitted, totalBefore) ==
    << Line(0, << Part("header", << envelope.version, envelope.platform >>,
                       6 + StrLen(envelope.version) + 3 + StrLen(envelope.platform) + 3
                         + NumLen(envelope.screen[1]) + 1 + NumLen(envelope.screen[2])) >>) >>
    \o (IF envelope.app # << >>
        THEN << Line(0, << Part("app", envelope.app, 7 + StrLen(envelope.app[1])) >>) >>
        ELSE << >>)
    \o << Line(0, << Part("nodes", << ToString(emitted), ToString(totalBefore) >>,
                          2 + NumLen(emitted) + 8 + NumLen(totalBefore) + 16) >>) >>
    \o (IF envelope.tools > 0
        THEN << Line(0, << Part("tools", << ToString(envelope.tools) >>,
                                2 + NumLen(envelope.tools) + 12
                                  + (IF envelope.tools # 1 THEN 1 ELSE 0) + 10) >>) >>
        ELSE << >>)
    \o (IF windowList # << >>
        THEN << Line(0, << Part("windows", << ToString(Len(windowList)) >>,
                                6 + NumLen(Len(windowList)) + 17) >>) >>
             \o [i \in DOMAIN windowList |->
                   Line(0, << Part("window", << windowList[i].title >>,
                                   4 + StrLen(windowList[i].title)
                                     + (IF windowList[i].foreground THEN 5 ELSE 0)) >>)]
        ELSE << >>)
    \o << Line(0, << >>) >>

RECURSIVE TextLen(_)
\* (lines.join("\n") + "\n").length
TextLen(lines) ==
    IF lines = << >> THEN 0 ELSE LineLen(Head(lines)) + 1 + TextLen(Tail(lines))

\* A string the serializer returns: whole lines, then `cut` characters of
\* the line after them, then the truncation notice if `notice`.  Whole lines
\* end in a newline, except that before the notice the last one does not.
Text(lines, cut, notice) ==
    [lines |-> lines, cut |-> cut, notice |-> notice,
     length |-> IF notice
                THEN (IF lines = << >> THEN cut ELSE TextLen(lines) - 1)
                     + TRUNCATION_NOTICE_LENGTH
                ELSE TextLen(lines)]

\* output.slice(0, maxChars) cut back to its last newline: the newline that
\* ends line j is at index TextLen(lines 1..j) - 1, and lastIndexOf finds the
\* last one below maxChars; without one at an index above 0 the slice stays.
Truncate(lines, maxChars) ==
    LET ended == {j \in DOMAIN lines : TextLen(SubSeq(lines, 1, j)) - 1 < maxChars}
        j == IF ended = {} THEN 0 ELSE CHOOSE x \in ended : \A y \in ended : y <= x
        lastNl == IF j = 0 THEN -1 ELSE TextLen(SubSeq(lines, 1, j)) - 1
    IN  IF lastNl > 0 THEN Text(SubSeq(lines, 1, j), 0, TRUE)
        ELSE Text(<< >>, maxChars, TRUE)

\* The truncation switched off.
LimitNever(maxChars, length) == FALSE

\* maxChars > 0 && output.length > maxChars
Limit(maxChars, length) == maxChars > 0 /\ length > maxChars

\* serializeCompact(envelope, {windowList, detail, maxChars}); maxChars is
\* <<>> when the caller gives none.
serializeCompact(envelope, windowList, detail, maxCharsOpt) ==
    LET maxChars == IF maxCharsOpt = << >> THEN MAX_OUTPUT_CHARS ELSE maxCharsOpt[1]
        totalBefore == countNodes(envelope.tree)
        pruned == pruneTree(envelope.tree, detail,
                            <<0, 0, envelope.screen[1], envelope.screen[2]>>)
        lines == EmitLoop(pruned, 0)
        emitted == countNodes(pruned)
        all == HeaderLines(envelope, windowList, emitted, totalBefore) \o lines
    IN  IF Limit(maxChars, TextLen(all))
        THEN Truncate(all, maxChars)
        ELSE Text(all, 0, FALSE)

\* ---------------------------------------------------------------------------
\* searchTree
\* ---------------------------------------------------------------------------

ALL_ROLES ==
    {"alert", "alertdialog", "application", "banner", "blockquote", "button",
     "caption", "cell", "checkbox", "code", "columnheader", "combobox",
     "complementary", "contentinfo", "deletion", "dialog", "document",
     "emphasis", "figure", "form", "generic", "grid", "group", "heading",
     "img", "insertion", "link", "list", "listitem", "log", "main", "marquee",
     "math", "menu", "menubar", "menuitem", "menuitemcheckbox", "menuitemradio",
     "navigation", "none", "note", "option", "paragraph", "progressbar",
     "radio", "region", "row", "rowheader", "scrollbar", "search", "searchbox",
     "separator", "slider", "spinbutton", "status", "strong", "subscript",
     "superscript", "switch", "tab", "table", "tablist", "tabpanel", "text",
     "textbox", "timer", "titlebar", "toolbar", "tooltip", "tree", "treeitem",
     "window"}

\* ROLE_SYNONYMS.get(key) (<<>>: undefined): the phrases of the table that
\* the strings of the model can make, and every role as itself.
ROLE_SYNONYMS(key) ==
    CASE key = "btn" -> << {"button"} >>
      [] key = "clickable" ->
            << {"button", "link", "menuitem", "tab", "treeitem", "listitem"} >>
      [] key = "list item" -> << {"listitem"} >>
      [] key = "search" -> << {"search", "searchbox", "textbox", "combobox"} >>
      [] key = "option" -> << {"option", "radio", "listitem", "menuitemradio"} >>
      [] key = "table" -> << {"table", "grid"} >>
      [] key \in ALL_ROLES -> << {key} >>
      [] OTHER -> << >>

NOISE_WORDS ==
    {"the", "a", "an", "this", "that", "for", "in", "on", "of",
     "with", "to", "and", "or", "is", "it", "its", "my", "your"}

\* tokenize(text) for the strings of the model.
tokenize(text) ==
    CASE text = "" -> << >>
      [] text = "ok button" -> << "ok", "button" >>
      [] text = "the far list item" -> << "the", "far", "list", "item" >>
      [] text = "list item" -> << "list", "item" >>
      [] text = "OK" -> << "ok" >>
      [] text = "Win" -> << "win" >>
      [] text = "App" -> << "app" >>
      [] OTHER -> << text >>

\* text.toLowerCase()
toLowerCase(text) ==
    CASE text = "OK" -> "ok"
      [] text = "Ctrl" -> "ctrl"
      [] text = "Win" -> "win"
      [] text = "App" -> "app"
      [] OTHER -> text

\* tokens.join(" "); "-" stands for the phrases that are no key of
\* ROLE_SYNONYMS and no name.
join(tokens) ==
    CASE Len(tokens) = 1 -> tokens[1]
      [] tokens = << "list", "item" >> -> "list item"
      [] tokens = << "ok", "button" >> -> "ok button"
      [] OTHER -> "-"

\* a.includes(b) and a.startsWith(b): among the words of the model the only
\* proper containment is "hel" at the start of "hello".
includes(a, b) == a = b \/ (a = "hello" /\ b = "hel")

\* The roles r of ALL_ROLES with r.includes(q), for a q that is no role.
RolesIncluding(q) ==
    IF q = "bar" THEN {"menubar", "progressbar", "scrollbar", "toolbar"} ELSE {}

\* resolveRoles(roleQuery) (<<>>: null)
resolveRoles(roleQuery) ==
    LET q == toLowerCase(roleQuery)
        direct == ROLE_SYNONYMS(q)
        tokens == tokenize(q)
        hits == {i \in DOMAIN tokens : ROLE_SYNONYMS(tokens[i]) # << >>}
        first == CHOOSE i \in hits : \A j \in hits : i <= j
    IN  IF direct # << >> THEN direct
        ELSE IF hits # {} THEN ROLE_SYNONYMS(tokens[first])
        ELSE IF StrLen(q) >= 3 /\ RolesIncluding(q) # {} THEN << RolesIncluding(q) >>
        ELSE << >>

\* parseQuery(query): [role (<<>>: null), name tokens].  The spans are tried
\* longest first, up to three words, leftmost first.
parseQuery(query) ==
    LET tokens == tokenize(query)
        spans == {sp \in (1..Len(tokens)) \X (1..Len(tokens)) :
                    /\ sp[1] <= sp[2]
                    /\ sp[2] - sp[1] < 3
                    /\ ROLE_SYNONYMS(join(SubSeq(tokens, sp[1], sp[2]))) # << >>}
        best == CHOOSE sp \in spans : \A o \in spans :
                    \/ sp[2] - sp[1] > o[2] - o[1]
                    \/ sp[2] - sp[1] = o[2] - o[1] /\ sp[1] <= o[1]
        rest == IF spans = {} THEN tokens
                ELSE SubSeq(tokens, 1, best[1] - 1) \o SubSeq(tokens, best[2] + 1, Len(tokens))
    IN  [role |-> IF spans = {} THEN << >> ELSE << join(SubSeq(tokens, best[1], best[2])) >>,
         name |-> SelectSeq(rest, LAMBDA t : t \notin NOISE_WORDS)]

\* Scores are held in units of 1/10000.
ONE == 10000

RECURSIVE Matched(_, _)
\* The token-level matching of scoreName: the sum over the query tokens.
Matched(queryTokens, nameTokens) ==
    IF queryTokens = << >> THEN 0
    ELSE LET qt == Head(queryTokens)
         IN  (IF qt \in nameTokens THEN 10000
              ELSE IF \E nt \in nameTokens : includes(nt, qt) THEN 7000
              ELSE IF \E nt \in nameTokens : includes(qt, nt) THEN 5000
              ELSE 0)
             + Matched(Tail(queryTokens), nameTokens)

\* scoreName(queryTokens, nodeName) for nodes without description, value and
\* placeholder, whose secondary boost is 0.
scoreName(queryTokens, nodeName) ==
    IF queryTokens = << >> THEN ONE
    ELSE LET queryJoined == join(queryTokens)
             nameLower == toLowerCase(nodeName)
             fullSubstr == IF includes(nameLower, queryJoined)
                           THEN (IF queryJoined = nameLower THEN ONE ELSE 8500)
                           ELSE 0
             nameTokens == Range(tokenize(nodeName))
             tokenScore == IF nameTokens # {}
                           THEN Matched(queryTokens, nameTokens) \div Len(queryTokens)
                           ELSE 0
             best == Max(fullSubstr, tokenScore)
             overlap == Cardinality({i \in DOMAIN queryTokens : queryTokens[i] \in nameTokens})
             nameScore == IF nameTokens # {} /\ best > 0
                          THEN (best * (8500 + (1500 * overlap) \div Cardinality(nameTokens)))
                                   \div ONE
                          ELSE best
         IN  Min(ONE, nameScore)

\* scoreContext(node, parentChain, queryTokens, targetRoles)
scoreContext(node, parentChain, queryTokens, targetRoles) ==
    (IF /\ queryTokens # << >>
        /\ \E i \in DOMAIN parentChain :
              Range(tokenize(parentChain[i].name)) \cap Range(queryTokens) # {}
     THEN 1000 ELSE 0)
    + (IF /\ targetRoles # << >>
          /\ \E i \in DOMAIN parentChain : parentChain[i].role \in targetRoles[1]
       THEN 1000 ELSE 0)
    + (IF hasMeaningfulActions(node) THEN 500 ELSE 0)
    + (IF "offscreen" \notin node.states THEN 500 ELSE 0)
    + (IF "focused" \in node.states THEN 200 ELSE 0)

\* scoreNode(node, parentChain, targetRoles, nameTokens, state)
scoreNode(node, parentChain, targetRoles, nameTokens, state) ==
    IF state # << >> /\ state[1] \notin node.states THEN 0
    ELSE IF targetRoles # << >> /\ node.role \notin targetRoles[1] THEN 0
    ELSE IF nameTokens # << >> /\ scoreName(nameTokens, node.name) = 0 THEN 0
    ELSE (IF targetRoles # << >> THEN 3500 ELSE 0)
         + (IF nameTokens # << >> THEN (scoreName(nameTokens, node.name) * 5000) \div ONE
            ELSE IF targetRoles # << >> THEN 1500 ELSE 0)
         + (IF state # << >> THEN 1000 ELSE 0)
         + scoreContext(node, parentChain, nameTokens, targetRoles)

\* const resultNode = { ...node }; delete resultNode.children
resultNode(node) == [node EXCEPT !.children = << >>]

RECURSIVE walkAndScore(_, _, _, _, _, _)
\* walkAndScore(nodes, parentChain, targetRoles, nameTokens, state, results,
\* threshold): the results it pushes.
walkAndScore(nodes, parentChain, targetRoles, nameTokens, state, threshold) ==
    IF nodes = << >> THEN << >>
    ELSE LET node == Head(nodes)
             score == scoreNode(node, parentChain, targetRoles, nameTokens, state)
         IN  (IF score >= threshold
              THEN << [node |-> resultNode(node), score |-> score] >>
              ELSE << >>)
             \o walkAndScore(node.children, Append(parentChain, node), targetRoles,
                             nameTokens, state, threshold)
             \o walkAndScore(Tail(nodes), parentChain, targetRoles, nameTokens,
                             state, threshold)

RECURSIVE sortUnstable(_)
\* A descending sort that puts a later element before its equals.
sortUnstable(results) ==
    IF results = << >> THEN << >>
    ELSE LET pivot == Head(results)
             rest == sortUnstable(Tail(results))
             before == SelectSeq(rest, LAMBDA r : r.score >= pivot.score)
             after == SelectSeq(rest, LAMBDA r : r.score < pivot.score)
         IN  before \o << pivot >> \o after

RECURSIVE sort(_)
\* results.sort((a, b) => b.score - a.score): descending and stable.
sort(results) ==
    IF results = << >> THEN << >>
    ELSE LET pivot == Head(results)
             rest == sort(Tail(results))
             before == SelectSeq(rest, LAMBDA r : r.score > pivot.score)
             after == SelectSeq(rest, LAMBDA r : r.score <= pivot.score)
         IN  before \o << pivot >> \o after

NoOptions ==
    [query |-> << >>, role |-> << >>, name |-> << >>, state |-> << >>,
     limit |-> << >>, threshold |-> << >>]

\* The role searchTree resolves (<<>>: none; "" is falsy).
effectiveRole(options) ==
    LET given(opt) == opt # << >> /\ opt[1] # ""
    IN  IF given(options.role) THEN options.role
        ELSE IF given(options.query) THEN parseQuery(options.query[1]).role
        ELSE << >>

\* searchTree(tree, options), for limits that are natural numbers.
searchTree(tree, options) ==
    LET given(opt) == opt # << >> /\ opt[1] # ""
        limit == IF options.limit = << >> THEN 5 ELSE options.limit[1]
        threshold == IF options.threshold = << >> THEN 1500 ELSE options.threshold[1]
        role == effectiveRole(options)
        nameTokens == IF given(options.name) THEN tokenize(options.name[1])
                      ELSE IF given(options.query) THEN parseQuery(options.query[1]).name
                      ELSE << >>
        targetRoles == IF role # << >> THEN resolveRoles(role[1]) ELSE << >>
        results == sort(walkAndScore(tree, << >>, targetRoles, nameTokens,
                                     options.state, threshold))
    IN  SubSeq(results, 1, Min(limit, Len(results)))

\* ---------------------------------------------------------------------------
\* The adapters' tree walks
\* ---------------------------------------------------------------------------

\* Map.set(k, v)
MapSet(m, k, v) == [x \in DOMAIN m \cup {k} |-> IF x = k THEN v ELSE m[x]]

EmptyMap == [x \in {} |-> 0]

\* The native reference stored for an element: the window handle (hwnd, pid,
\* bus name, wsUrl) and the element in it (nodeIndex, path, objectPath,
\* backendDOMNodeId).  cap is not part of the program's value: it names the
\* captureTree call that recorded the reference.
NativeRef(c, w, i) == [cap |-> c, win |-> w, idx |-> i]

\* A helper whose nodeCounter starts at 1.
HelperIdsFromOne(flat) == [i \in 1..Len(flat) |-> i]

\* windows / macos: the helper process walks one window and numbers its nodes
\* with its own nodeCounter, which starts at 0 in every process.
HelperIds(flat) == [i \in 1..Len(flat) |-> i - 1]

HelperNodes(flat, c, w) ==
    [i \in 1..Len(flat) |-> CupNode(HelperIds(flat)[i], flat[i], <<c, w, i>>)]

Depths(flat) == [i \in 1..Len(flat) |-> flat[i].d]

\* for (j ...) refs.set(rawNodes[j].id, { hwnd, nodeIndex: j })
RECURSIVE HelperRefs(_, _, _, _, _)
HelperRefs(refs, flat, j, c, w) ==
    IF j > Len(flat) THEN refs
    ELSE HelperRefs(MapSet(refs, HelperIds(flat)[j], NativeRef(c, w, j)), flat, j + 1, c, w)

\* web: childIds of the AX node at position i of the flat node list.
RECURSIVE SubtreeEnd(_, _, _)
SubtreeEnd(flat, i, j) ==
    IF j <= Len(flat) /\ flat[j].d > flat[i].d THEN SubtreeEnd(flat, i, j + 1) ELSE j - 1

ChildIds(flat, i) ==
    LET last == SubtreeEnd(flat, i, i + 1)
        kids == {j \in (i + 1)..last : flat[j].d = flat[i].d + 1}
    IN  [n \in 1..Cardinality(kids) |->
            CHOOSE j \in kids : Cardinality({x \in kids : x < j}) = n - 1]

RECURSIVE convert(_, _, _, _, _, _)
RECURSIVE ConvertChildren(_, _, _, _, _)

\* The loop over childIds: the converted children (promoted ones spliced in),
\* the id counter and the ref map after it.
ConvertChildren(flat, kids, acc, c, w) ==
    IF kids = <<>> THEN acc
    ELSE LET r == convert(flat, Head(kids), acc.counter, acc.refs, c, w)
         IN  ConvertChildren(flat, Tail(kids),
                 [out |-> acc.out \o r.out, counter |-> r.counter, refs |-> r.refs], c, w)

\* convert() of web's buildTreeFromFlat: out is <<>> for null, the promoted
\* children for a skipped role, the node itself otherwise.  cupCache is left
\* out: in a tree no node is converted twice.
convert(flat, i, counter, refs, c, w) ==
    IF flat[i].skip
    THEN ConvertChildren(flat, ChildIds(flat, i),
                         [out |-> <<>>, counter |-> counter, refs |-> refs], c, w)
    ELSE LET node == CupNode(counter, flat[i], <<c, w, i>>)
             refs1 == IF flat[i].backend
                      THEN MapSet(refs, node.id, NativeRef(c, w, i))
                      ELSE refs
             r == ConvertChildren(flat, ChildIds(flat, i),
                      [out |-> <<>>, counter |-> counter + 1, refs |-> refs1], c, w)
         IN  [out |-> << [node EXCEPT !.children = r.out] >>,
              counter |-> r.counter, refs |-> r.refs]

\* web's buildTreeFromFlat: the conversion of axNodes[0].
WebBuildTreeFromFlat(flat, counter, refs, c, w) ==
    IF flat = <<>> THEN [out |-> <<>>, counter |-> counter, refs |-> refs]
    ELSE convert(flat, 1, counter, refs, c, w)

\* linux: the tree buildCupNode returns for a window whose nodes received ids
\* in pre-order (the recursion builds a node, then its children in order).
LinuxNodes(flat, ids, c, w) ==
    [i \in 1..Len(flat) |-> CupNode(ids[i], flat[i], <<c, w, i>>)]


\* _treeNeedsPoke without its rule for chrome roles.
treeNeedsPokeWhenSmall(stats) == stats.nodes < SPARSE_TREE_THRESHOLD

\* _treeNeedsPoke
treeNeedsPoke(stats) ==
    \/ stats.nodes < SPARSE_TREE_THRESHOLD
    \/ stats.chrome /\ ~stats.document

NoStats == [nodes |-> 0, chrome |-> FALSE, document |-> FALSE]

\* The stats loop of _walkWindows over one window's raw nodes.
AddStats(stats, flat) ==
    [nodes |-> stats.nodes + Len(flat),
     chrome |-> stats.chrome \/ \E i \in DOMAIN flat : flat[i].role \in {"toolbar", "tab"},
     document |-> stats.document \/ \E i \in DOMAIN flat : flat[i].role = "document"]

\* ---------------------------------------------------------------------------
\* The session
\* ---------------------------------------------------------------------------

VARIABLES
    platform,         \* adapter.platformName
    refs,             \* ActionExecutor.refs: element ID -> native reference
    lastTree,         \* Session.lastTree (<<>>: null, <<t>>: the tree t)
    lastRawTree,      \* Session.lastRawTree (<<>>: null, <<t>>: the tree t)
    globalIdCounter,  \* linux.ts: the module-level ID counter
    caps,             \* the capture() calls: their position and local variables
    latest,           \* the capture() call that stored its snapshot last (0: none)
    exec,             \* the execute() / pressKeys() call: position, locals, result
    batch,            \* the batchExecute() call: position, locals, result
    find,             \* the findElements() call: position, locals, result
    input,            \* the argument a library function is called with
    output,           \* what the library function returned for it
    msgIdCounter,     \* web.ts: the module-level CDP message ID counter
    cdp,              \* the CDP sockets and the cdpSend() calls made on them
    helper,           \* the compiled helper: its file, the cached path, its callers
    appTree,          \* what the foreground window shows (<<>>: NativeFlat's tree)
    defaults          \* index.ts: _defaultSession, the sessions created for it, its callers

\* The state of the process outside the session.
process == <<msgIdCounter, cdp, helper, appTree, defaults>>

vars == <<platform, refs, lastTree, lastRawTree, globalIdCounter, caps, latest,
          exec, batch, find, input, output, process>>

Caps == 1..MaxCaptures

\* getDesktopWindow(): a window that is none of the application windows.
DesktopWin == NumWindows + 1

NoApp == "-"

Title(p, w) == NativeFlat(p, w)[1].name

ToLower(str) ==
    CASE str = "Win" -> "win"
      [] str = "App" -> "app"
      [] OTHER -> str

\* (w.title || "").toLowerCase().includes(appLower), for filters that are a
\* whole lower-cased title or occur in no title.
TitleIncludes(title, appLower) == ToLower(title) = appLower

Scopes == {"foreground", "desktop", "full"}

Apps == {NoApp, "App", "zzz"}

\* The windows capture() hands to captureTree.
WindowsFor(p, scope, app) ==
    CASE scope = "foreground" -> << ForegroundWin >>
      [] scope = "desktop" -> << DesktopWin >>
      [] OTHER ->
            IF app = NoApp THEN AllWindows
            ELSE SelectSeq(AllWindows,
                           LAMBDA w : TitleIncludes(Title(p, w), ToLower(app)))

\* A capture() call that has not been made.  built is the linux walk's
\* progress per window: the IDs given to the window's nodes so far.
\* overlapped, ids and lost are not
\* program state: whether another tree capture was in flight during this one,
\* the IDs of the snapshot the call stored, and the slots of the windows
\* whose walk has thrown.
Idle ==
    [pc |-> "idle", windows |-> <<>>, k |-> 0,
     tree |-> <<>>, refs |-> EmptyMap, stats |-> NoStats, counter |-> 0,
     poked |-> FALSE, built |-> <<>>,
     overlapped |-> FALSE, ids |-> {}, lost |-> {}]

\* ---------------------------------------------------------------------------
\* The action executor
\* ---------------------------------------------------------------------------

VALID_ACTIONS ==
    {"click", "collapse", "decrement", "dismiss", "doubleclick", "expand", "focus",
     "increment", "longpress", "press_keys", "rightclick", "scroll", "select",
     "setvalue", "toggle", "type"}

\* JavaScript values handed in as parameters.
JsString(str) == [t |-> "string", s |-> str]

JsNull == [t |-> "null", s |-> ""]

JsBigInt == [t |-> "bigint", s |-> "10"]

\* A params object: each key is absent (<<>>) or present with a value (<<v>>).
Params(value, direction, keys) == [value |-> value, direction |-> direction, keys |-> keys]

ParamSets ==
    {Params(<<>>, <<>>, <<>>),
     Params(<< JsString("hi") >>, <<>>, <<>>),
     Params(<< JsNull >>, <<>>, <<>>),
     Params(<<>>, << JsString("up") >>, <<>>),
     Params(<<>>, << JsString("sideways") >>, <<>>),
     Params(<<>>, << JsBigInt >>, <<>>),
     Params(<<>>, <<>>, << JsString("ctrl+s") >>),
     Params(<<>>, <<>>, << JsString("") >>)}

\* !x for a property read: undefined, null and "" are falsy.
Falsy(opt) == opt = <<>> \/ opt[1].t = "null" \/ (opt[1].t = "string" /\ opt[1].s = "")

\* A value check that accepts everything.
AnyValue(opt) == TRUE

\* x != null
NotNullish(opt) == opt # <<>> /\ opt[1].t # "null"

\* A direction check that accepts everything.
AnyDirection(opt) == TRUE

\* ["up", "down", "left", "right"].includes(direction)
IsDirection(opt) ==
    opt # <<>> /\ opt[1].t = "string" /\ opt[1].s \in {"up", "down", "left", "right"}

\* JSON.stringify(x): a TypeError for a BigInt, the text otherwise.
JSONstringify(opt) ==
    IF opt = <<>> THEN [throws |-> FALSE, text |-> "undefined"]
    ELSE CASE opt[1].t = "bigint" -> [throws |-> TRUE, text |-> ""]
           [] opt[1].t = "null" -> [throws |-> FALSE, text |-> "null"]
           [] OTHER -> [throws |-> FALSE, text |-> opt[1].s]

\* An ActionResult.  The error text is kept as the pieces its template joins.
Failure(error) == [success |-> FALSE, message |-> <<>>, error |-> error]

Success(message) == [success |-> TRUE, message |-> message, error |-> <<>>]

ErrUnknownAction(action) == << "Unknown action '", action, "'. Valid: ", "VALID_ACTIONS" >>

ErrKeysRequired == << "Action 'press_keys' requires a '", "keys", "' parameter" >>

\* The element ID numbered n, as the text the adapters build: `e${n}`.
ElementId(n) == "e" \o ToString(n)

ErrUnknownElement(id) ==
    << "Element '", ElementId(id), "' not found in current tree snapshot" >>

ErrValueRequired(action) == << "Action '", action, "' requires a '", "value", "' parameter" >>

ErrDirection(got) ==
    << "Action 'scroll' requires '", "direction", "' (up/down/left/right), got: ", got >>

\* String(err) of the Error a handler throws.
StringOfError == << "Error: ", "handler failed" >>

NoResult == <<>>

\* No execute() or pressKeys() call made yet.  op is the method called; route
\* the handler entry the call goes on to after its await ("none": it ended
\* in its synchronous part); ref the native reference it read.  known,
\* capAtCall, capAtDispatch and invoked are not program state: whether the ID
\* was in the ref map at the call, the snapshot current at the call and at the
\* handler invocation, and the handler entry invoked.
NoCall ==
    [pc |-> "idle", op |-> "", id |-> 0, action |-> "", params |-> Params(<<>>, <<>>, <<>>),
     route |-> "none", ref |-> <<>>, keys |-> "", known |-> FALSE,
     capAtCall |-> 0, capAtDispatch |-> 0, invoked |-> "none", result |-> NoResult]

\* ActionExecutor.pressKeys up to its await of getHandler().
pressKeysSync(call, combo) == [call EXCEPT !.pc = "await", !.route = "keys", !.keys = combo]

\* ActionExecutor.execute up to its first await: the checks in the order of
\* the code, then the read of the native reference.
executeSync(id, action, params) ==
    LET call == [NoCall EXCEPT !.op = "execute", !.id = id, !.action = action,
                               !.params = params, !.known = id \in DOMAIN refs,
                               !.capAtCall = latest]
        done(res) == [call EXCEPT !.pc = "done", !.result = << res >>]
    IN  IF action \notin VALID_ACTIONS THEN done(Failure(ErrUnknownAction(action)))
        ELSE IF action = "press_keys"
        THEN IF Falsy(params.keys) THEN done(Failure(ErrKeysRequired))
             ELSE pressKeysSync(call, params.keys[1].s)
        ELSE IF id \notin DOMAIN refs THEN done(Failure(ErrUnknownElement(id)))
        ELSE IF action \in {"type", "setvalue"} /\ ~NotNullish(params.value)
        THEN done(Failure(ErrValueRequired(action)))
        ELSE IF action = "scroll" /\ ~IsDirection(params.direction)
        THEN IF JSONstringify(params.direction).throws
             THEN [call EXCEPT !.pc = "raised"]
             ELSE done(Failure(ErrDirection(JSONstringify(params.direction).text)))
        ELSE [call EXCEPT !.pc = "await", !.route = "element", !.ref = << refs[id] >>]

\* What the platform handler does with a call: it succeeds, reports a
\* failure, or throws / rejects.
HandlerOutcomes == {"success", "failure", "throws"}

\* The rest of execute / pressKeys: the handler entry is invoked inside the
\* try; the catch turns an exception into a failure.
handlerReturn(call, outcome) ==
    [call EXCEPT !.pc = "done", !.invoked = call.route, !.capAtDispatch = latest,
                 !.result = << CASE outcome = "success" -> Success(<< "Clicked" >>)
                                 [] outcome = "failure" -> Failure(<< "stale element" >>)
                                 [] OTHER -> Failure(StringOfError) >>]

ElementIds == {0, 1, 99}

ActionNames == {"click", "type", "setvalue", "scroll", "press_keys", "fly"}

Combos == {"ctrl+s", ""}

NoBatch == [pc |-> "idle", specs |-> <<>>, i |-> 0, results |-> <<>>, ran |-> <<>>]

\* A findElements() call: its position, its options, the capture() call it
\* awaits (0: none), the tree it handed to searchTree, the capture() call that
\* had stored that tree, and what it returned.
NoFind ==
    [pc |-> "idle", options |-> NoOptions, cap |-> 0, searched |-> <<>>, from |-> 0,
     results |-> <<>>]

\* The options findElements() is called with.
FindOptions == {NoOptions, [NoOptions EXCEPT !.role = << "btn" >>, !.limit = << 1 >>]}

Sockets == 1..NumSockets

\* No socket connected, no cdpSend() call made, no event emitted.
NoCdp == [sockets |-> [s \in Sockets |-> "none"], requests |-> << >>, events |-> 0]

Callers == 1..MaxCallers

\* The helper binary in the temporary directory: absent, partial (created
\* and not yet completely written) or complete; stale: last written more
\* than 24 hours ago; writers: the compiler processes that have it open.
NoFile == [state |-> "absent", stale |-> FALSE, writers |-> {}]

\* No caller has asked for the helper; path: _axHelperPath / uiaHelperPath
\* is set.  A caller's ran is the state of the binary it executed.
NoHelper ==
    [file |-> NoFile, path |-> FALSE,
     callers |-> [c \in Callers |-> [pc |-> "idle", ran |-> ""]]]

\* The process as it starts.
\* No convenience function was called: _defaultSession is null (0).  created
\* counts the Session objects made by getDefaultSession, which are numbered
\* from 1; snapshot[s] is the call whose capture session s stored last.
NoDefaults ==
    [session |-> 0, created |-> 0,
     calls |-> [c \in Callers |-> [pc |-> "idle", fn |-> "", session |-> 0]],
     snapshot |-> [s \in Callers |-> 0]]

NoProcess ==
    /\ msgIdCounter = 0
    /\ cdp = NoCdp
    /\ helper = NoHelper
    /\ appTree = << >>
    /\ defaults = NoDefaults

Init ==
    /\ NoProcess
    /\ platform \in Platforms
    /\ refs = EmptyMap
    /\ lastTree = <<>>
    /\ lastRawTree = <<>>
    /\ globalIdCounter = 0
    /\ caps = [c \in Caps |-> Idle]
    /\ latest = 0
    /\ exec = NoCall
    /\ batch = NoBatch
    /\ find = NoFind
    /\ input = << >>
    /\ output = << >>

\* The calls are numbered in the order they are made.
CanStart(c) == caps[c].pc = "idle" /\ \A o \in Caps : o < c => caps[o].pc # "idle"

\* capture({scope: "overview"}), and scope "desktop" when getDesktopWindow()
\* finds none: the window list is returned and nothing is stored.
CaptureOverview(c) ==
    /\ CanStart(c)
    /\ caps' = [caps EXCEPT ![c] = [Idle EXCEPT !.pc = "overview"]]
    /\ UNCHANGED <<process, find, input, output, exec, batch, platform, refs, lastTree, lastRawTree, globalIdCounter, latest>>

Walking(c) == caps[c].pc = "walk"

\* The capture() calls once call c has entered captureTree for the windows ws.
StartWalk(c, ws) ==
    [o \in Caps |->
        IF o = c
        THEN [Idle EXCEPT !.pc = "walk", !.windows = ws,
                          !.built = [s \in 1..Len(ws) |-> <<>>],
                          !.overlapped = \E x \in Caps : Walking(x)]
        ELSE IF Walking(o) THEN [caps[o] EXCEPT !.overlapped = TRUE]
        ELSE caps[o]]

\* capture() up to the start of the adapter's walk: the scope is resolved to
\* windows and captureTree initialises its locals; linux resets the counter.
\* The call's detail option is first read when the snapshot is stored and is
\* drawn there.
CaptureTreeStart(c, scope, app) ==
    /\ CanStart(c)
    /\ scope = "desktop" => platform # "web"
    /\ app # NoApp => scope = "full"
    /\ caps' = StartWalk(c, WindowsFor(platform, scope, app))
    /\ globalIdCounter' = IF platform = "linux" THEN 0 ELSE globalIdCounter
    /\ UNCHANGED <<process, find, input, output, exec, batch, platform, refs, lastTree, lastRawTree, latest>>

\* The tree the window w yields to a walk, before and after it was brought to
\* the foreground.
Shown(w, poked) ==
    IF appTree # << >> /\ w = ForegroundWin
    THEN IF poked THEN appTree[1].second ELSE appTree[1].first
    ELSE NativeFlat(platform, w)

\* windows / macos / web: captureTree's loop body for the next window.  The
\* helper process or the CDP session may fail (ok = FALSE): the catch skips
\* the window.
WalkWindow(c, ok) ==
    /\ platform # "linux"
    /\ Walking(c)
    /\ caps[c].k < Len(caps[c].windows)
    /\ LET cap == caps[c]
           w == cap.windows[cap.k + 1]
           flat == Shown(w, cap.poked)
           web == WebBuildTreeFromFlat(flat, cap.counter, cap.refs, c, w)
       IN  caps' = [caps EXCEPT ![c] =
                IF ~ok THEN [cap EXCEPT !.k = cap.k + 1, !.lost = @ \cup {cap.k + 1}]
                ELSE IF platform = "web"
                THEN [cap EXCEPT !.k = cap.k + 1,
                                 !.tree = cap.tree \o web.out,
                                 !.counter = web.counter,
                                 !.refs = web.refs,
                                 !.stats = AddStats(cap.stats,
                                     SelectSeq(flat, LAMBDA n : ~n.skip))]
                ELSE [cap EXCEPT !.k = cap.k + 1,
                                 !.tree = cap.tree \o BuildTreeFromFlat(
                                     HelperNodes(flat, c, w), Depths(flat)),
                                 !.refs = HelperRefs(cap.refs, flat, 1, c, w),
                                 !.stats = AddStats(cap.stats, flat)]]
    /\ UNCHANGED <<process, find, input, output, exec, batch, platform, refs, lastTree, lastRawTree, globalIdCounter, latest>>

\* windows: a single window whose tree looks uninitialised is poked and
\* walked again; the second walk replaces the first one's results.
WindowsPoke(c) ==
    /\ platform = "windows"
    /\ Walking(c)
    /\ caps[c].k = Len(caps[c].windows)
    /\ Len(caps[c].windows) = 1
    /\ ~caps[c].poked
    /\ treeNeedsPoke(caps[c].stats)
    /\ caps' = [caps EXCEPT ![c] = [@ EXCEPT !.poked = TRUE, !.k = 0, !.tree = <<>>,
                                              !.refs = EmptyMap, !.stats = NoStats,
                                              !.lost = {}]]
    /\ UNCHANGED <<process, find, input, output, exec, batch, platform, refs, lastTree, lastRawTree, globalIdCounter, latest>>

\* linux: the nodes buildCupNode visits in the window of slot s.
LinuxFlat(c, s) == NativeFlat(platform, caps[c].windows[s])

\* nextId()
nextId(counter) == [id |-> counter, counter |-> counter + 1]

\* linux: buildCupNode reaches the next node of the window in slot s: after
\* its awaited property reads it takes the next ID and stores the node's
\* reference.  The walks of one capture's windows run under Promise.all, so
\* their steps interleave.
LinuxBuildNode(c, s) ==
    /\ platform = "linux"
    /\ Walking(c)
    /\ s \in 1..Len(caps[c].windows)
    /\ LET cap == caps[c]
           i == Len(cap.built[s]) + 1
           n == nextId(globalIdCounter)
       IN  /\ i <= Len(LinuxFlat(c, s))
           /\ globalIdCounter' = n.counter
           /\ caps' = [caps EXCEPT ![c] =
                  [cap EXCEPT !.built[s] = Append(@, n.id),
                              !.refs = MapSet(@, n.id, NativeRef(c, cap.windows[s], i))]]
    /\ UNCHANGED <<process, find, input, output, exec, batch, platform, refs, lastTree, lastRawTree, latest>>

RECURSIVE LinuxMerge(_, _)
\* linux: the roots of the windows' walks, pushed in the order of the windows.
LinuxMerge(c, s) ==
    IF s > Len(caps[c].windows) THEN <<>>
    ELSE BuildTreeFromFlat(
             LinuxNodes(LinuxFlat(c, s), caps[c].built[s], c, caps[c].windows[s]),
             Depths(LinuxFlat(c, s)))
         \o LinuxMerge(c, s + 1)

\* A capture() that reaches the storing code on its overview path as well.
WalkDoneOrOverview(c) ==
    \/ caps[c].pc = "overview"
    \/ /\ Walking(c)
       /\ IF platform = "linux"
          THEN \A s \in 1..Len(caps[c].windows) :
                   Len(caps[c].built[s]) = Len(LinuxFlat(c, s))
          ELSE /\ caps[c].k = Len(caps[c].windows)
               /\ (platform = "windows" /\ Len(caps[c].windows) = 1
                       /\ treeNeedsPoke(caps[c].stats)) => caps[c].poked

\* A capture() that catches the adapter's rejection and goes on to store.
WalkDoneOrFailed(c) ==
    \/ caps[c].pc = "failed"
    \/ /\ Walking(c)
       /\ IF platform = "linux"
          THEN \A s \in 1..Len(caps[c].windows) :
                   Len(caps[c].built[s]) = Len(LinuxFlat(c, s))
          ELSE /\ caps[c].k = Len(caps[c].windows)
               /\ (platform = "windows" /\ Len(caps[c].windows) = 1
                       /\ treeNeedsPoke(caps[c].stats)) => caps[c].poked

\* captureTree has walked every window and returns.
WalkDone(c) ==
    /\ Walking(c)
    /\ IF platform = "linux"
       THEN \A s \in 1..Len(caps[c].windows) :
                Len(caps[c].built[s]) = Len(LinuxFlat(c, s))
       ELSE /\ caps[c].k = Len(caps[c].windows)
            /\ (platform = "windows" /\ Len(caps[c].windows) = 1
                    /\ treeNeedsPoke(caps[c].stats)) => caps[c].poked

\* The tree captureTree returns.
CapturedTree(c) == IF platform = "linux" THEN LinuxMerge(c, 1) ELSE caps[c].tree

\* setRefs as a merge into the map already held.
setRefsMerged(old, new) ==
    [id \in DOMAIN old \cup DOMAIN new |-> IF id \in DOMAIN old THEN old[id] ELSE new[id]]

\* executor.setRefs(refs)
setRefs(old, new) == new

\* findElements() is suspended in `await this.capture(...)` on the call c.
Awaited(c) == find.pc = "capture" /\ find.cap = c

\* findElements() handing searchTree the pruned tree instead.
findResumePruned(call, rawTree, from) ==
    [call EXCEPT !.pc = "done", !.searched = lastTree, !.from = from,
                 !.results = IF lastTree = << >> THEN << >>
                             ELSE LET results == searchTree(lastTree[1], call.options)
                                  IN  [i \in DOMAIN results |-> results[i].node]]

\* findElements() from the `if` on: searchTree is handed this.lastRawTree, and
\* the nodes of its results are returned.
findResume(call, rawTree, from) ==
    [call EXCEPT !.pc = "done", !.searched = rawTree, !.from = from,
                 !.results = LET results == searchTree(rawTree[1], call.options)
                             IN  [i \in DOMAIN results |-> results[i].node]]

\* capture() from the return of captureTree to its own return, which runs
\* without an await: setRefs, buildEnvelope, lastRawTree, lastTree.  A
\* findElements() awaiting this call resumes in the same job-queue drain:
\* every other capture() is suspended on an adapter call that only I/O ends.
CaptureCommit(c, detail) ==
    /\ WalkDone(c)
    /\ LET tree == CapturedTree(c)
       IN  /\ refs' = setRefs(refs, caps[c].refs)
           /\ lastRawTree' = << tree >>
           /\ lastTree' = << pruneTree(tree, detail, NoViewport) >>
           /\ caps' = [caps EXCEPT ![c] =
                  [Idle EXCEPT !.pc = "done", !.overlapped = caps[c].overlapped,
                               !.ids = Range(TreeIds(tree))]]
    /\ latest' = c
    /\ Awaited(c) => detail = "standard"
    /\ find' = IF Awaited(c) THEN findResume(find, << CapturedTree(c) >>, c) ELSE find
    /\ UNCHANGED <<process, input, output, exec, batch, platform, globalIdCounter>>

\* An awaited adapter call rejects (web: cdpConnect is outside the try): the
\* capture() promise rejects and nothing is stored.
CaptureReject(c) ==
    /\ Walking(c)
    /\ caps' = [caps EXCEPT ![c] = [Idle EXCEPT !.pc = "failed",
                                                !.overlapped = caps[c].overlapped]]
    /\ find' = IF Awaited(c) THEN [find EXCEPT !.pc = "rejected"] ELSE find
    /\ UNCHANGED <<process, input, output, exec, batch, platform, refs, lastTree, lastRawTree, globalIdCounter, latest>>

\* web: cdpConnect to the next window's target rejects (the tab was closed,
\* the handshake failed or timed out).  The call stands before the try:
\* captureTree rejects, and capture() with it.
CdpConnectRejects(c) ==
    /\ platform = "web"
    /\ Walking(c)
    /\ caps[c].k < Len(caps[c].windows)
    /\ caps' = [caps EXCEPT ![c] = [Idle EXCEPT !.pc = "failed",
                                                !.overlapped = caps[c].overlapped,
                                                !.lost = caps[c].lost \cup {caps[c].k + 1}]]
    /\ find' = IF Awaited(c) THEN [find EXCEPT !.pc = "rejected"] ELSE find
    /\ UNCHANGED <<process, input, output, exec, batch, platform, refs, lastTree, lastRawTree,
                   globalIdCounter, latest>>

CaptureNext ==
    \/ \E c \in Caps : CaptureOverview(c)
    \/ \E c \in Caps, scope \in Scopes, app \in Apps : CaptureTreeStart(c, scope, app)
    \/ \E c \in Caps, ok \in BOOLEAN : WalkWindow(c, ok)
    \/ \E c \in Caps : WindowsPoke(c)
    \/ \E c \in Caps, s \in 1..NumWindows : LinuxBuildNode(c, s)
    \/ \E c \in Caps, detail \in Details : CaptureCommit(c, detail)
    \/ \E c \in Caps : CaptureReject(c)
    \/ \E c \in Caps : CdpConnectRejects(c)

SpecCapture == Init /\ [][CaptureNext]_vars

\* capture() before captureTree: getScreenInfo, getForegroundWindow,
\* getWindowList, getDesktopWindow or getAllWindows rejects.  No statement of
\* capture() that stores has run, and the promise of capture() rejects.
CaptureRaisesEarly(c) ==
    /\ CanStart(c)
    /\ caps' = [caps EXCEPT ![c] = [Idle EXCEPT !.pc = "failed"]]
    /\ UNCHANGED <<process, find, input, output, exec, batch, platform, refs, lastTree,
                   lastRawTree, globalIdCounter, latest>>

RaiseNext ==
    \/ CaptureNext
    \/ \E c \in Caps : CaptureRaisesEarly(c)

SpecRaise == Init /\ [][RaiseNext]_vars

\* The trees a window of a Chromium or Electron application shows before and
\* after its accessibility tree is initialised.
AppTrees ==
    {[first |-> f, second |-> g] :
        f \in {NativeFlat("windows", ForegroundWin), LargeFlat(TRUE, FALSE),
                LargeFlat(TRUE, TRUE), LargeFlat(FALSE, FALSE)},
        g \in {NativeFlat("windows", ForegroundWin), LargeFlat(TRUE, FALSE),
                LargeFlat(TRUE, TRUE)}}

InitPoke ==
    /\ msgIdCounter = 0
    /\ cdp = NoCdp
    /\ helper = NoHelper
    /\ defaults = NoDefaults
    /\ appTree \in {<< t >> : t \in AppTrees}
    /\ platform = "windows"
    /\ refs = EmptyMap
    /\ lastTree = <<>>
    /\ lastRawTree = <<>>
    /\ globalIdCounter = 0
    /\ caps = [c \in Caps |-> Idle]
    /\ latest = 0
    /\ exec = NoCall
    /\ batch = NoBatch
    /\ find = NoFind
    /\ input = << >>
    /\ output = << >>

\* WindowsAdapter.captureTree under capture().
PokeNext ==
    \/ \E c \in Caps, scope \in Scopes, app \in Apps : CaptureTreeStart(c, scope, app)
    \/ \E c \in Caps, ok \in BOOLEAN : WalkWindow(c, ok)
    \/ \E c \in Caps : WindowsPoke(c)
    \/ \E c \in Caps, detail \in Details : CaptureCommit(c, detail)

SpecPoke == InitPoke /\ [][PokeNext]_vars

\* session.findElements(options) up to its first suspension.  Without a raw
\* tree it calls capture({scope: "foreground", compact: true}) and awaits it;
\* with one it runs to its return.
FindCall(c, options) ==
    /\ find.pc = "idle"
    /\ IF lastRawTree = << >>
       THEN /\ CanStart(c)
            /\ find' = [NoFind EXCEPT !.pc = "capture", !.options = options, !.cap = c]
            /\ caps' = StartWalk(c, WindowsFor(platform, "foreground", NoApp))
            /\ globalIdCounter' = IF platform = "linux" THEN 0 ELSE globalIdCounter
       ELSE /\ c = 1
            /\ find' = findResume([NoFind EXCEPT !.options = options], lastRawTree, latest)
            /\ UNCHANGED <<caps, globalIdCounter>>
    /\ UNCHANGED <<process, input, output, exec, batch, platform, refs, lastTree, lastRawTree, latest>>

\* The caller takes the promise's outcome; the session can be searched again.
FindSettled ==
    /\ find.pc \in {"done", "rejected"}
    /\ find' = [find EXCEPT !.pc = "idle"]
    /\ UNCHANGED <<process, input, output, exec, batch, platform, refs, lastTree, lastRawTree,
                   globalIdCounter, caps, latest>>

FindNext ==
    \/ \E c \in Caps, options \in FindOptions : FindCall(c, options)
    \/ FindSettled
    \/ \E c \in Caps : CaptureOverview(c)
    \/ \E c \in Caps, scope \in Scopes, app \in Apps : CaptureTreeStart(c, scope, app)
    \/ \E c \in Caps, ok \in BOOLEAN : WalkWindow(c, ok)
    \/ \E c \in Caps : WindowsPoke(c)
    \/ \E c \in Caps, s \in 1..NumWindows : LinuxBuildNode(c, s)
    \/ \E c \in Caps, detail \in Details : CaptureCommit(c, detail)
    \/ \E c \in Caps : CaptureReject(c)
    \/ \E c \in Caps : CdpConnectRejects(c)

SpecFind == Init /\ [][FindNext]_vars

\* session.execute(elementId, action, params): the synchronous part.
ExecuteCall(id, action, params) ==
    /\ exec.pc # "await"
    /\ batch.pc \in {"idle", "done", "raised"}
    /\ exec' = executeSync(id, action, params)
    /\ UNCHANGED <<process, find, input, output, platform, refs, lastTree, lastRawTree, globalIdCounter, caps,
                   latest, batch>>

\* session.pressKeys(combo): the synchronous part.
PressKeysCall(combo) ==
    /\ exec.pc # "await"
    /\ batch.pc \in {"idle", "done", "raised"}
    /\ exec' = pressKeysSync([NoCall EXCEPT !.op = "pressKeys", !.capAtCall = latest],
                             combo)
    /\ UNCHANGED <<process, find, input, output, platform, refs, lastTree, lastRawTree, globalIdCounter, caps,
                   latest, batch>>

\* The call resumes after `await this.getHandler()`, invokes the handler and
\* returns what it yields.
HandlerReturn(outcome) ==
    /\ exec.pc = "await"
    /\ exec' = handlerReturn(exec, outcome)
    /\ UNCHANGED <<process, find, input, output, platform, refs, lastTree, lastRawTree, globalIdCounter, caps,
                   latest, batch>>

\* capture() with its default options (scope "foreground", detail "standard"),
\* one call at a time.
DefaultCaptureStart(c) ==
    /\ \A o \in Caps : ~Walking(o)
    /\ CaptureTreeStart(c, "foreground", NoApp)

DefaultCaptureCommit(c) == CaptureCommit(c, "standard")

ExecNext ==
    \/ \E c \in Caps : DefaultCaptureStart(c)
    \/ \E c \in Caps, ok \in BOOLEAN : WalkWindow(c, ok)
    \/ \E c \in Caps : WindowsPoke(c)
    \/ \E c \in Caps, s \in 1..NumWindows : LinuxBuildNode(c, s)
    \/ \E c \in Caps : DefaultCaptureCommit(c)
    \/ \E id \in ElementIds, action \in ActionNames, params \in ParamSets :
           ExecuteCall(id, action, params)
    \/ \E combo \in Combos : PressKeysCall(combo)
    \/ \E outcome \in HandlerOutcomes : HandlerReturn(outcome)

SpecExec == Init /\ [][ExecNext]_vars

\* ---------------------------------------------------------------------------
\* batchExecute
\* ---------------------------------------------------------------------------

NoParams == Params(<<>>, <<>>, <<>>)

\* A BatchAction: element_id and ms are absent (<<>>) or present; params are
\* its other keys.
BatchAction(action, element_id, ms, params) ==
    [action |-> action, element_id |-> element_id, ms |-> ms, params |-> params]

BatchActions ==
    {BatchAction("wait", <<>>, <<>>, NoParams),
     BatchAction("press_keys", <<>>, <<>>, Params(<<>>, <<>>, << JsString("ctrl+s") >>)),
     BatchAction("press_keys", <<>>, <<>>, NoParams),
     BatchAction("click", << 0 >>, <<>>, NoParams),
     BatchAction("click", <<>>, <<>>, NoParams),
     BatchAction("type", << 0 >>, <<>>, NoParams),
     BatchAction("click", << 99 >>, <<>>, NoParams),
     BatchAction("scroll", << 0 >>, <<>>, Params(<<>>, << JsBigInt >>, <<>>))}

RECURSIVE SeqsUpTo(_, _)
\* The lists over S of length at most n.
SeqsUpTo(S, n) ==
    IF n = 0 THEN {<<>>}
    ELSE SeqsUpTo(S, n - 1) \cup
         {Append(q, x) : q \in {r \in SeqsUpTo(S, n - 1) : Len(r) = n - 1}, x \in S}

\* Math.max(50, Math.min(spec.ms ?? 500, 5000))
WaitMs(ms) == Max(50, Min(IF ms = <<>> THEN 500 ELSE ms[1], 5000))

Waited(ms) == Success(<< "Waited ", ToString(WaitMs(ms)), "ms" >>)

ErrBatchKeys == << "press_keys action requires '", "keys", "' parameter" >>

ErrBatchElementId(action) ==
    << "Element action '", action, "' requires '", "element_id", "' parameter" >>

\* The loop of batchExecute after the result of spec i: it stops on a
\* failure and at the end of the list.
AfterResult(b, res, effect) ==
    [b EXCEPT !.results = Append(@, res),
              !.ran = IF effect THEN Append(@, b.i) ELSE @,
              !.pc = IF ~res.success \/ b.i = Len(b.specs) THEN "done" ELSE "loop"]

\* session.batchExecute(actions)
BatchCall(specs) ==
    /\ batch.pc \in {"idle", "done", "raised"}
    /\ exec.pc # "await"
    /\ batch' = [NoBatch EXCEPT !.specs = specs,
                                !.pc = IF specs = <<>> THEN "done" ELSE "loop"]
    /\ UNCHANGED <<process, find, input, output, platform, refs, lastTree, lastRawTree, globalIdCounter, caps,
                   latest, exec>>

\* The loop body for the next spec, up to its await or its break.
BatchStep ==
    /\ batch.pc = "loop"
    /\ LET b == [batch EXCEPT !.i = batch.i + 1]
           spec == b.specs[b.i]
       IN  IF spec.action = "wait"
           THEN batch' = [b EXCEPT !.pc = "wait"] /\ UNCHANGED exec
           ELSE IF spec.action = "press_keys"
           THEN IF Falsy(spec.params.keys)
                THEN /\ batch' = [b EXCEPT !.pc = "done",
                                   !.results = Append(@, Failure(ErrBatchKeys))]
                     /\ UNCHANGED exec
                ELSE /\ batch' = [b EXCEPT !.pc = "call"]
                     /\ exec' = pressKeysSync(
                            [NoCall EXCEPT !.op = "pressKeys", !.capAtCall = latest],
                            spec.params.keys[1].s)
           ELSE IF spec.element_id = <<>>
                THEN /\ batch' = [b EXCEPT !.pc = "done",
                                   !.results = Append(@, Failure(ErrBatchElementId(spec.action)))]
                     /\ UNCHANGED exec
                ELSE /\ batch' = [b EXCEPT !.pc = "call"]
                     /\ exec' = executeSync(spec.element_id[1], spec.action, spec.params)
    /\ UNCHANGED <<process, find, input, output, platform, refs, lastTree, lastRawTree, globalIdCounter, caps, latest>>

\* The wait's timer fires.
BatchWake ==
    /\ batch.pc = "wait"
    /\ batch' = AfterResult(batch, Waited(batch.specs[batch.i].ms), TRUE)
    /\ UNCHANGED <<process, find, input, output, platform, refs, lastTree, lastRawTree, globalIdCounter, caps,
                   latest, exec>>

\* The awaited execute / pressKeys call settles: its result is pushed, or its
\* rejection rejects batchExecute.
BatchResume ==
    /\ batch.pc = "call"
    /\ exec.pc \in {"done", "raised"}
    /\ batch' = IF exec.pc = "raised" THEN [batch EXCEPT !.pc = "raised"]
                ELSE AfterResult(batch, exec.result[1], exec.invoked # "none")
    /\ UNCHANGED <<process, find, input, output, platform, refs, lastTree, lastRawTree, globalIdCounter, caps,
                   latest, exec>>

BatchNext ==
    \/ \E c \in Caps : DefaultCaptureStart(c)
    \/ \E c \in Caps, ok \in BOOLEAN : WalkWindow(c, ok)
    \/ \E c \in Caps : WindowsPoke(c)
    \/ \E c \in Caps, s \in 1..NumWindows : LinuxBuildNode(c, s)
    \/ \E c \in Caps : DefaultCaptureCommit(c)
    \/ \E specs \in SeqsUpTo(BatchActions, MaxBatchLen) : BatchCall(specs)
    \/ BatchStep
    \/ BatchWake
    \/ BatchResume
    \/ \E outcome \in HandlerOutcomes : HandlerReturn(outcome)

SpecBatch == Init /\ [][BatchNext]_vars

\* ---------------------------------------------------------------------------
\* The library functions called on their own
\* ---------------------------------------------------------------------------

\* The session's variables while a library function is called on its own.
NoSession ==
    /\ NoProcess
    /\ platform = "web"
    /\ refs = EmptyMap
    /\ lastTree = << >>
    /\ lastRawTree = << >>
    /\ globalIdCounter = 0
    /\ caps = [c \in Caps |-> Idle]
    /\ latest = 0
    /\ exec = NoCall
    /\ batch = NoBatch
    /\ find = NoFind

\* The nodes the trees handed to the library functions are made of.
Kinds ==
    << RawNode(0, "window", "Win", <<0, 0, 200, 100>>, << >>, {}, TRUE, FALSE),
       RawNode(0, "button", "OK", <<10, 10, 80, 30>>, <<"click">>, {"focused"}, TRUE, FALSE),
       RawNode(0, "generic", "", <<0, 0, 0, 0>>, << >>, {}, TRUE, FALSE),
       RawNode(0, "group", "", NoBounds, << >>, {}, TRUE, FALSE),
       RawNode(0, "scrollbar", "", <<190, 0, 10, 100>>, <<"scroll">>, {}, TRUE, FALSE),
       RawNode(0, "text", "hello", <<0, 0, 50, 10>>, <<"focus">>, {}, TRUE, FALSE),
       RawNode(0, "list", "", <<0, 0, 100, 50>>, <<"scroll">>, {}, TRUE, FALSE),
       RawNode(0, "listitem", "far", <<0, 60, 100, 10>>, <<"click">>, {}, TRUE, FALSE),
       RawNode(0, "document", "", NoBounds, << >>, {}, TRUE, FALSE),
       RawNode(0, "img", "", <<-30, 0, 10, 10>>, << >>, {"offscreen"}, TRUE, FALSE) >>

NodeKinds == Range(Kinds)

\* The depth streams of the forests with n nodes.
Shapes(n) ==
    {d \in [1..n -> 0..(n - 1)] :
        d[1] = 0 /\ \A i \in 1..(n - 1) : d[i + 1] <= d[i] + 1}

\* A tree as an adapter builds it: IDs in pre-order from e0.
TreeOf(kinds, depths) ==
    BuildTreeFromFlat([i \in DOMAIN kinds |-> CupNode(i - 1, kinds[i], <<0, 0, i>>)],
                      depths)

\* Larger trees: a window with a hoisted container between two siblings, and
\* a scrollable list with children outside its bounds on two sides.
LargerTrees ==
    { TreeOf([i \in 1..6 |-> Kinds[<<1, 2, 4, 2, 6, 8>>[i]]], <<0, 1, 1, 2, 2, 1>>),
      TreeOf([i \in 1..6 |-> Kinds[<<1, 7, 2, 8, 2, 10>>[i]]], <<0, 1, 2, 2, 3, 2>>),
      TreeOf([i \in 1..5 |-> Kinds[<<1, 3, 2, 5, 2>>[i]]], <<0, 1, 2, 1, 2>>) }

Trees ==
    LargerTrees \cup
    UNION {{TreeOf(kinds, d) : kinds \in [1..n -> NodeKinds], d \in Shapes(n)} :
           n \in 1..MaxTreeNodes}

\* options.screen of pruneTree as the viewport it makes of it.
Screens == {NoViewport, <<0, 0, 200, 55>>}

InitPrune ==
    /\ NoSession
    /\ input \in {<< [tree |-> t, screen |-> sc] >> : t \in Trees, sc \in Screens}
    /\ output = << >>

\* pruneTree(tree, {detail, screen})
PruneTree(detail) ==
    /\ output' = << [detail |-> detail,
                     tree |-> pruneTree(input[1].tree, detail, input[1].screen)] >>
    /\ output' # output
    /\ UNCHANGED <<process, input, platform, refs, lastTree, lastRawTree, globalIdCounter, caps,
                   latest, exec, batch, find>>

PruneNext == \E detail \in Details : PruneTree(detail)

SpecPrune == InitPrune /\ [][PruneNext]_vars

\* The envelopes handed to serializeCompact.
Envelopes ==
    {[version |-> "0.1.0", platform |-> "web", screen |-> <<200, 55>>,
      tree |-> t, app |-> app, tools |-> tools] :
        t \in LargerTrees \cup
              UNION {{TreeOf(kinds, d) : kinds \in [1..n -> NodeKinds], d \in Shapes(n)} :
                     n \in 1..MaxEnvelopeNodes},
        app \in {<< >>, << "App" >>},
        tools \in {0, 2}}

\* options.maxChars: absent, not positive, and positive below and above the
\* lengths the envelopes serialize to.
MaxCharsOptions == {<< >>, << -1 >>, << 0 >>, << 10 >>, << 45 >>, << 90 >>, << 150 >>}

WindowLists == {<< >>, << [title |-> "App", foreground |-> TRUE] >>}

InitFormat ==
    /\ NoSession
    /\ input \in {<< [envelope |-> e, windowList |-> wl, maxChars |-> mc] >> :
                    e \in Envelopes, wl \in WindowLists, mc \in MaxCharsOptions}
    /\ output = << >>

\* What a call of the serializer returned: formatLine a line, serializeCompact
\* a text.
Returned2(fn, detail, node, line, text) ==
    << [fn |-> fn, detail |-> detail, node |-> node, line |-> line, text |-> text] >>

\* serializeCompact(envelope, {windowList, detail, maxChars})
SerializeCompact(detail) ==
    /\ output' = Returned2("serializeCompact", detail, << >>, << >>,
                           serializeCompact(input[1].envelope, input[1].windowList,
                                            detail, input[1].maxChars))
    /\ output' # output
    /\ UNCHANGED <<process, input, platform, refs, lastTree, lastRawTree, globalIdCounter, caps,
                   latest, exec, batch, find>>

\* formatLine(node) for the i-th node of the envelope's tree.
FormatLine(i) ==
    /\ i \in DOMAIN PreOrder(input[1].envelope.tree)
    /\ LET node == PreOrder(input[1].envelope.tree)[i]
       IN  output' = Returned2("formatLine", "full", << node >>, formatLine(node),
                               Text(<< >>, 0, FALSE))
    /\ output' # output
    /\ UNCHANGED <<process, input, platform, refs, lastTree, lastRawTree, globalIdCounter, caps,
                   latest, exec, batch, find>>

FormatNext ==
    \/ \E detail \in Details : SerializeCompact(detail)
    \/ \E i \in 1..MaxEnvelopeNodes : FormatLine(i)

SpecFormat == InitFormat /\ [][FormatNext]_vars

\* The options handed to searchTree.
SearchOptions ==
    {[query |-> q, role |-> r, name |-> n, state |-> st, limit |-> l, threshold |-> th] :
        q \in {<< >>, << "ok button" >>, << "the far list item" >>},
        r \in {<< >>, << "btn" >>, << "bar" >>, << "xyz" >>},
        n \in {<< >>, << "ok" >>, << "hel" >>},
        st \in {<< >>, << "focused" >>},
        l \in {<< >>, << 1 >>, << 2 >>},
        th \in {<< >>, << 0 >>}}

InitSearch ==
    /\ NoSession
    /\ input \in {<< [tree |-> e.tree, options |-> o] >> : e \in Envelopes, o \in SearchOptions}
    /\ output = << >>

\* searchTree(tree, options)
SearchTree ==
    /\ output = << >>
    /\ output' = << [results |-> searchTree(input[1].tree, input[1].options)] >>
    /\ UNCHANGED <<process, input, platform, refs, lastTree, lastRawTree, globalIdCounter, caps,
                   latest, exec, batch, find>>

SearchNext == SearchTree

SpecSearch == InitSearch /\ [][SearchNext]_vars

\* ---------------------------------------------------------------------------
\* Key combos: parseCombo and the four handlers' key-press paths
\* ---------------------------------------------------------------------------

\* A combo string is held as the sequence of its pieces between "+" signs,
\* which is what combo.split("+") returns; the empty string has one empty piece.
RawPieces == {"ctrl", " Ctrl ", "shift", "cmd", "s", "return", "foo", ""}

KeyCombos == UNION {[1..n -> RawPieces] : n \in 1..MaxComboPieces}

\* p.trim()
trim(p) == IF p = " Ctrl " THEN "Ctrl" ELSE p

ALIASES(part) ==
    CASE part = "return" -> << "enter" >>
      [] part = "esc" -> << "escape" >>
      [] part = "del" -> << "delete" >>
      [] part = "bs" -> << "backspace" >>
      [] part \in {"cmd", "super", "win"} -> << "meta" >>
      [] part = "pgup" -> << "pageup" >>
      [] part \in {"pgdn", "pgdown"} -> << "pagedown" >>
      [] OTHER -> << >>

parseCombo(combo) ==
    LET lowered == [i \in DOMAIN combo |-> toLowerCase(trim(combo[i]))]
        parts == SelectSeq(lowered, LAMBDA p : p # "")
        normalized == [i \in DOMAIN parts |->
                          IF ALIASES(parts[i]) = << >> THEN parts[i] ELSE ALIASES(parts[i])[1]]
        IsModifier(p) == p \in {"ctrl", "alt", "shift", "meta"}
    IN  [modifiers |-> SelectSeq(normalized, IsModifier),
         keys |-> SelectSeq(normalized, LAMBDA p : ~IsModifier(p))]

\* names.map(table) with the names the table does not hold left out.
RECURSIVE Lookup(_, _)
Lookup(table(_), names) ==
    IF names = << >> THEN << >>
    ELSE table(Head(names)) \o Lookup(table, Tail(names))

\* [...s].reverse()
RECURSIVE reverse(_)
reverse(s) == IF s = << >> THEN << >> ELSE reverse(Tail(s)) \o << Head(s) >>

\* The bitwise or of a set of distinct single bits.
RECURSIVE BitOr(_)
BitOr(bits) ==
    IF bits = {} THEN 0
    ELSE LET b == CHOOSE x \in bits : TRUE IN b + BitOr(bits \ {b})

\* macOS: CGKeyCode values, CGEventSetFlags bits and the modifiers' keycodes.
macos_VK_MAP(k) ==
    CASE k \in {"enter", "return"} -> << 36 >>
      [] k = "s" -> << 1 >>
      [] OTHER -> << >>

MOD_FLAGS(m) ==
    CASE m = "meta" -> << 2^20 >>
      [] m = "ctrl" -> << 2^18 >>
      [] m = "alt" -> << 2^19 >>
      [] m = "shift" -> << 2^17 >>
      [] OTHER -> << >>

MOD_VK(m) ==
    CASE m = "meta" -> << 55 >>
      [] m = "ctrl" -> << 59 >>
      [] m = "alt" -> << 58 >>
      [] m = "shift" -> << 56 >>
      [] OTHER -> << >>

\* MacosActionHandler.pressKeys; helperOk: the Swift helper runs and exits 0.
macos_pressKeys(combo, helperOk) ==
    LET parsed == parseCombo(combo)
        flags == BitOr(UNION {Range(MOD_FLAGS(m)) : m \in Range(parsed.modifiers)})
        resolved == Lookup(macos_VK_MAP, parsed.keys)
        onlyModifiers == resolved = << >> /\ parsed.modifiers # << >>
        mainKeys == IF onlyModifiers THEN Lookup(MOD_VK, parsed.modifiers) ELSE resolved
    IN  IF mainKeys = << >>
        THEN [sent |-> << >>, success |-> FALSE]
        ELSE [sent |-> << [command |-> "key_combo", keys |-> mainKeys,
                           flags |-> IF onlyModifiers THEN 0 ELSE flags] >>,
              success |-> helperOk]

\* Windows: virtual key codes.
windows_VK_MAP(k) ==
    CASE k \in {"enter", "return"} -> << 13 >>
      [] k = "ctrl" -> << 162 >>
      [] k = "alt" -> << 164 >>
      [] k = "shift" -> << 160 >>
      [] k \in {"win", "meta"} -> << 91 >>
      [] OTHER -> << >>

EXTENDED_VKS == {38, 40, 37, 39, 36, 35, 33, 34, 46, 91, 92, 45}

MOD_TO_VK(m) ==
    CASE m = "ctrl" -> << 162 >>
      [] m = "alt" -> << 164 >>
      [] m = "shift" -> << 160 >>
      [] m = "meta" -> << 91 >>
      [] OTHER -> << >>

\* k.toUpperCase().charCodeAt(0)
upperCharCode(k) == CASE k = "s" -> 83

\* [KeySend]::MakeKey(vk, flags): flags 0 is key down, 2 key up, bit 1 the
\* extended-key flag.
MakeKey(vk, down) ==
    [vk |-> vk, flags |-> (IF down THEN 0 ELSE 2) + (IF vk \in EXTENDED_VKS THEN 1 ELSE 0)]

\* The script as the sequence of its SendInput calls, each with its inputs.
buildSendKeyScript(modNames, keyNames) ==
    LET named == Lookup(MOD_TO_VK, modNames)
        mainVk(k) == IF windows_VK_MAP(k) # << >> THEN windows_VK_MAP(k)
                     ELSE IF StrLen(k) = 1 THEN << upperCharCode(k) >>
                     ELSE << >>
        resolved == Lookup(mainVk, keyNames)
        onlyModifiers == named # << >> /\ resolved = << >>
        modVks == IF onlyModifiers THEN << >> ELSE named
        mainVks == IF onlyModifiers THEN named ELSE resolved
        Keys(vks, down) == [i \in DOMAIN vks |-> MakeKey(vks[i], down)]
        inputLines == Keys(modVks, TRUE) \o Keys(mainVks, TRUE)
                          \o Keys(reverse(mainVks), FALSE) \o Keys(reverse(modVks), FALSE)
        nMods == Len(modVks)
    IN  IF modVks = << >> /\ mainVks = << >> THEN << >>
        ELSE IF nMods > 0 /\ Len(mainVks) > 0
        THEN << SubSeq(inputLines, 1, nMods), SubSeq(inputLines, nMods + 1, Len(inputLines)) >>
        ELSE << inputLines >>

\* WindowsActionHandler.press; ok: PowerShell runs the script and exits 0.
windows_press(combo, ok) ==
    LET parsed == parseCombo(combo)
    IN  [sent |-> buildSendKeyScript(parsed.modifiers, parsed.keys), success |-> ok]

\* Linux: xdotool key names.
XDO_KEY_MAP(k) ==
    CASE k \in {"enter", "return"} -> << "Return" >>
      [] OTHER -> << >>

XDO_MOD_MAP(m) ==
    CASE m \in {"ctrl", "alt", "shift"} -> << m >>
      [] m = "meta" -> << "super" >>
      [] OTHER -> << >>

\* linux.ts sendKeyCombo and LinuxActionHandler.pressKeys; the argument
\* parts.join("+") is held as the sequence of its pieces.  ok: xdotool exits 0.
linux_pressKeys(combo, ok) ==
    LET parsed == parseCombo(combo)
        xdoKey(k) == IF XDO_KEY_MAP(k) # << >> THEN XDO_KEY_MAP(k)
                     ELSE IF StrLen(k) = 1 THEN << k >>
                     ELSE << >>
        mapped == Lookup(XDO_MOD_MAP, parsed.modifiers) \o Lookup(xdoKey, parsed.keys)
        parts == IF mapped = << >> /\ parsed.modifiers # << >>
                 THEN Lookup(XDO_MOD_MAP, parsed.modifiers)
                 ELSE mapped
    IN  IF parts = << >>
        THEN [sent |-> << >>, success |-> FALSE]
        ELSE [sent |-> << [command |-> "key", option |-> "--clearmodifiers", keys |-> parts] >>,
              success |-> ok]

\* Web: CDP key descriptions.
CDP_KEY_MAP(k) ==
    CASE k = "enter" -> << [key |-> "Enter", code |-> "Enter"] >>
      [] OTHER -> << >>

CDP_MODIFIER_MAP(m) ==
    CASE m = "ctrl" -> << [key |-> "Control", code |-> "ControlLeft", bit |-> 2] >>
      [] m = "alt" -> << [key |-> "Alt", code |-> "AltLeft", bit |-> 1] >>
      [] m = "shift" -> << [key |-> "Shift", code |-> "ShiftLeft", bit |-> 8] >>
      [] m = "meta" -> << [key |-> "Meta", code |-> "MetaLeft", bit |-> 4] >>
      [] OTHER -> << >>

\* One Input.dispatchKeyEvent request.
KeyEvent(type, info, modifiers, text) ==
    [type |-> type, key |-> info.key, code |-> info.code, modifiers |-> modifiers,
     text |-> text]

\* WebActionHandler.sendKeyCombo: the requests it sends when none fails.
sendKeyCombo(combo) ==
    LET parsed == parseCombo(combo)
        infos == Lookup(CDP_MODIFIER_MAP, parsed.modifiers)
        modBits == BitOr({infos[i].bit : i \in DOMAIN infos})
        cdpKey(k) == IF CDP_KEY_MAP(k) # << >> THEN CDP_KEY_MAP(k)
                     ELSE IF StrLen(k) = 1
                     THEN << [key |-> k, code |-> IF k = "s" THEN "KeyS" ELSE ""] >>
                     ELSE << >>
        text(k) == IF CDP_KEY_MAP(k) = << >> /\ modBits = 0 THEN << k >> ELSE << >>
        press(k) == IF cdpKey(k) = << >> THEN << >>
                    ELSE << KeyEvent("keyDown", cdpKey(k)[1], modBits, text(k)),
                            KeyEvent("keyUp", cdpKey(k)[1], modBits, << >>) >>
    IN  [i \in DOMAIN infos |-> KeyEvent("keyDown", infos[i], modBits, << >>)]
            \o Lookup(press, parsed.keys)
            \o [i \in DOMAIN infos |-> KeyEvent("keyUp", reverse(infos)[i], 0, << >>)]

\* WebActionHandler.pressKeys once a page target is connected; failing = 0:
\* every request is answered, otherwise the failing-th request rejects.
web_pressKeys(combo, failing) ==
    LET events == sendKeyCombo(combo)
    IN  IF failing = 0 THEN [sent |-> events, success |-> TRUE]
        ELSE [sent |-> SubSeq(events, 1, failing), success |-> FALSE]

InitKeys ==
    /\ NoProcess
    /\ platform \in Platforms
    /\ refs = EmptyMap
    /\ lastTree = << >>
    /\ lastRawTree = << >>
    /\ globalIdCounter = 0
    /\ caps = [c \in Caps |-> Idle]
    /\ latest = 0
    /\ exec = NoCall
    /\ batch = NoBatch
    /\ find = NoFind
    /\ input \in {<< [combo |-> combo] >> : combo \in KeyCombos}
    /\ output = << >>

Pressing(result) ==
    /\ output = << >>
    /\ output' = << result >>
    /\ UNCHANGED <<process, input, platform, refs, lastTree, lastRawTree, globalIdCounter, caps,
                   latest, exec, batch, find>>

MacosPressKeys ==
    /\ platform = "macos"
    /\ \E helperOk \in BOOLEAN : Pressing(macos_pressKeys(input[1].combo, helperOk))

WindowsPress ==
    /\ platform = "windows"
    /\ \E ok \in BOOLEAN : Pressing(windows_press(input[1].combo, ok))

LinuxPressKeys ==
    /\ platform = "linux"
    /\ \E ok \in BOOLEAN : Pressing(linux_pressKeys(input[1].combo, ok))

WebPressKeys ==
    /\ platform = "web"
    /\ \E failing \in 0..Len(sendKeyCombo(input[1].combo)) :
           Pressing(web_pressKeys(input[1].combo, failing))

KeysNext == MacosPressKeys \/ WindowsPress \/ LinuxPressKeys \/ WebPressKeys

SpecKeys == InitKeys /\ [][KeysNext]_vars

\* ---------------------------------------------------------------------------
\* The CDP transport: cdpConnect, cdpSend, cdpClose
\* ---------------------------------------------------------------------------

\* A message from the browser: a response carries the id of the command it
\* answers and maybe an error, an event notification carries no id.
Response(id, error) == [id |-> << id >>, error |-> error]

Event == [id |-> << >>, error |-> FALSE]

\* A cdpSend() call: its socket, its msgId, its promise (how it settled, on
\* which message, and "timeout" or "error" if it rejected), whether onMessage
\* is registered on the socket and whether its timer is armed; answered: the
\* browser has sent its response.
Request(ws, msgId) ==
    [ws |-> ws, msgId |-> msgId, promise |-> "pending", settledBy |-> << >>,
     reason |-> "", listener |-> TRUE, timer |-> TRUE, answered |-> FALSE]

\* onMessage settling on every response, whatever its id.
matchesAnyResponse(resp, msgId) == resp.id # << >>

\* resp.id === msgId
matches(resp, msgId) == matchesAnyResponse(resp, msgId) /\ resp.id[1] = msgId

\* cdpSend's onMessage(raw) for the request req.
onMessage(req, resp) ==
    IF matches(resp, req.msgId)
    THEN [req EXCEPT !.timer = FALSE, !.listener = FALSE,
                     !.promise = IF resp.error THEN "rejected" ELSE "resolved",
                     !.reason = IF resp.error THEN "error" ELSE "",
                     !.settledBy = << resp >>]
    ELSE req

\* A timer callback that rejects and leaves onMessage registered.
onTimeoutRejectOnly(req) ==
    [req EXCEPT !.timer = FALSE, !.promise = "rejected", !.reason = "timeout"]

\* cdpSend's timer callback for the request req.
onTimeout(req) ==
    [req EXCEPT !.timer = FALSE, !.listener = FALSE, !.promise = "rejected",
                !.reason = "timeout"]

\* cdpConnect(wsUrl, host): the socket opens.
CdpConnect(s) ==
    /\ cdp.sockets[s] = "none"
    /\ cdp' = [cdp EXCEPT !.sockets[s] = "open"]
    /\ UNCHANGED <<defaults, msgIdCounter, helper, appTree, input, output, platform, refs, lastTree,
                   lastRawTree, globalIdCounter, caps, latest, exec, batch, find>>

\* msgId = ++msgIdCounter
nextMsgId(counter) == counter + 1

\* cdpSend(ws, method, params) up to the return of its promise: the ID is
\* drawn, the timer armed, the listener registered and the message sent.
CdpSend(s) ==
    /\ cdp.sockets[s] = "open"
    /\ Len(cdp.requests) < MaxRequests
    /\ msgIdCounter' = nextMsgId(msgIdCounter)
    /\ cdp' = [cdp EXCEPT !.requests = Append(@, Request(s, nextMsgId(msgIdCounter)))]
    /\ UNCHANGED <<defaults, helper, appTree, input, output, platform, refs, lastTree, lastRawTree,
                   globalIdCounter, caps, latest, exec, batch, find>>

\* The socket emits "message": every listener registered on it runs.
Emit(requests, s, resp) ==
    [i \in DOMAIN requests |->
        IF requests[i].ws = s /\ requests[i].listener
        THEN onMessage(requests[i], resp)
        ELSE requests[i]]

\* The browser answers the r-th command on the socket it came in on, with a
\* result or with an error.
CdpResponse(r, error) ==
    /\ r \in DOMAIN cdp.requests
    /\ ~cdp.requests[r].answered
    /\ cdp.sockets[cdp.requests[r].ws] = "open"
    /\ cdp' = [cdp EXCEPT !.requests =
                  Emit([@ EXCEPT ![r].answered = TRUE], cdp.requests[r].ws,
                       Response(cdp.requests[r].msgId, error))]
    /\ UNCHANGED <<defaults, msgIdCounter, helper, appTree, input, output, platform, refs, lastTree,
                   lastRawTree, globalIdCounter, caps, latest, exec, batch, find>>

\* The browser emits an event notification on a socket.
CdpEvent(s) ==
    /\ cdp.sockets[s] = "open"
    /\ cdp.events < MaxEvents
    /\ cdp' = [cdp EXCEPT !.events = @ + 1, !.requests = Emit(@, s, Event)]
    /\ UNCHANGED <<defaults, msgIdCounter, helper, appTree, input, output, platform, refs, lastTree,
                   lastRawTree, globalIdCounter, caps, latest, exec, batch, find>>

\* The timer of the r-th cdpSend() call fires.
CdpTimeout(r) ==
    /\ r \in DOMAIN cdp.requests
    /\ cdp.requests[r].timer
    /\ cdp' = [cdp EXCEPT !.requests[r] = onTimeout(@)]
    /\ UNCHANGED <<defaults, msgIdCounter, helper, appTree, input, output, platform, refs, lastTree,
                   lastRawTree, globalIdCounter, caps, latest, exec, batch, find>>

\* cdpClose(ws), or the browser closing the connection: no more messages.
CdpClose(s) ==
    /\ cdp.sockets[s] = "open"
    /\ cdp' = [cdp EXCEPT !.sockets[s] = "closed"]
    /\ UNCHANGED <<defaults, msgIdCounter, helper, appTree, input, output, platform, refs, lastTree,
                   lastRawTree, globalIdCounter, caps, latest, exec, batch, find>>

InitCdp == NoSession /\ input = << >> /\ output = << >>

CdpNext ==
    \/ \E s \in Sockets : CdpConnect(s)
    \/ \E s \in Sockets : CdpSend(s)
    \/ \E r \in 1..MaxRequests, error \in BOOLEAN : CdpResponse(r, error)
    \/ \E s \in Sockets : CdpEvent(s)
    \/ \E r \in 1..MaxRequests : CdpTimeout(r)
    \/ \E s \in Sockets : CdpClose(s)

SpecCdp == InitCdp /\ [][CdpNext]_vars

\* setTimeout: an armed timer fires unless it is cleared first.
SpecCdpTimers == SpecCdp /\ \A r \in 1..MaxRequests : WF_vars(CdpTimeout(r))

\* ---------------------------------------------------------------------------
\* The compiled helpers: getAxHelper (macOS), getUiaHelper (Windows)
\* ---------------------------------------------------------------------------

\* fs.existsSync(binPath)
existsSync(file) == file.state # "absent"

\* statSync(exePath) succeeds and Date.now() - stat.mtimeMs < 24 hours
recent(file) == file.state # "absent" /\ ~file.stale

\* Whether the call returns the path without compiling, as the code of the
\* platform decides it.
Present(h) ==
    IF platform = "macos"
    THEN (h.path /\ existsSync(h.file)) \/ existsSync(h.file)
    ELSE h.path \/ recent(h.file)

\* getAxHelper() / getUiaHelper() up to its return or its await: it returns
\* the path of a binary it finds, setting the cached path (which a call that
\* took the first return leaves as it is, set), or writes the source file and
\* starts the compiler.
GetHelper(c) ==
    /\ helper.callers[c].pc = "idle"
    /\ \A o \in Callers : o < c => helper.callers[o].pc # "idle"
    /\ helper' = IF Present(helper)
                  THEN [helper EXCEPT !.path = TRUE, !.callers[c].pc = "returned"]
                  ELSE [helper EXCEPT !.callers[c].pc = "compiling"]
    /\ UNCHANGED <<defaults, msgIdCounter, cdp, appTree, input, output, platform, refs, lastTree, lastRawTree,
                   globalIdCounter, caps, latest, exec, batch, find>>

\* The compiler started by the caller c creates or truncates the output file
\* and begins to write it.  (A compiler that writes elsewhere and renames
\* takes no such step.)
CompilerOpens(c) ==
    /\ helper.callers[c].pc = "compiling"
    /\ c \notin helper.file.writers
    /\ helper' = [helper EXCEPT !.file = [state |-> "partial", stale |-> FALSE,
                                          writers |-> @.writers \cup {c}]]
    /\ UNCHANGED <<defaults, msgIdCounter, cdp, appTree, input, output, platform, refs, lastTree, lastRawTree,
                   globalIdCounter, caps, latest, exec, batch, find>>

\* The compiler exits with status 0 and the caller resumes after its await:
\* the path is cached and returned.  The file is complete unless another
\* compiler still has it open.
CompilerExits(c) ==
    /\ helper.callers[c].pc = "compiling"
    /\ helper' = [helper EXCEPT
                      !.file = [state |-> IF @.writers \ {c} = {} THEN "complete" ELSE "partial",
                                stale |-> FALSE, writers |-> @.writers \ {c}],
                      !.path = TRUE,
                      !.callers[c].pc = "returned"]
    /\ UNCHANGED <<defaults, msgIdCounter, cdp, appTree, input, output, platform, refs, lastTree, lastRawTree,
                   globalIdCounter, caps, latest, exec, batch, find>>

\* The compiler fails before it has opened the output file (no compiler
\* installed, the file is in use, the timeout): the await throws.
CompilerFails(c) ==
    /\ helper.callers[c].pc = "compiling"
    /\ c \notin helper.file.writers
    /\ helper' = [helper EXCEPT !.callers[c].pc = "failed"]
    /\ UNCHANGED <<defaults, msgIdCounter, cdp, appTree, input, output, platform, refs, lastTree, lastRawTree,
                   globalIdCounter, caps, latest, exec, batch, find>>

\* The caller executes the binary at the path it was given.
RunHelper(c) ==
    /\ helper.callers[c].pc = "returned"
    /\ helper' = [helper EXCEPT !.callers[c] = [pc |-> "ran", ran |-> helper.file.state]]
    /\ UNCHANGED <<defaults, msgIdCounter, cdp, appTree, input, output, platform, refs, lastTree, lastRawTree,
                   globalIdCounter, caps, latest, exec, batch, find>>

\* The temporary directory as the process finds it: empty, or holding the
\* binary an earlier process compiled, which may be older than 24 hours.
InitHelper ==
    /\ msgIdCounter = 0
    /\ cdp = NoCdp
    /\ appTree = << >>
    /\ defaults = NoDefaults
    /\ helper \in {[NoHelper EXCEPT !.file = f] :
                      f \in {NoFile, [NoFile EXCEPT !.state = "complete"],
                              [NoFile EXCEPT !.state = "complete", !.stale = TRUE]}}
    /\ platform \in {"macos", "windows"}
    /\ refs = EmptyMap
    /\ lastTree = << >>
    /\ lastRawTree = << >>
    /\ globalIdCounter = 0
    /\ caps = [c \in Caps |-> Idle]
    /\ latest = 0
    /\ exec = NoCall
    /\ batch = NoBatch
    /\ find = NoFind
    /\ input = << >>
    /\ output = << >>

HelperNext ==
    \/ \E c \in Callers : GetHelper(c)
    \/ \E c \in Callers : CompilerOpens(c)
    \/ \E c \in Callers : CompilerExits(c)
    \/ \E c \in Callers : CompilerFails(c)
    \/ \E c \in Callers : RunHelper(c)

SpecHelper == InitHelper /\ [][HelperNext]_vars

\* ---------------------------------------------------------------------------
\* buildTreeFromFlat called on its own
\* ---------------------------------------------------------------------------

\* The depth annotations of the streams: any depths, with or without a root
\* at depth 0 and with or without jumps.
DepthStreams == UNION {[1..n -> 0..MaxDepth] : n \in 0..MaxStreamLen}

\* The i-th node of a stream; its ID is its position.
StreamNode(i, d) ==
    CupNode(i, RawNode(d, "group", "", NoBounds, <<>>, {}, TRUE, FALSE), <<0, 0, i>>)

InitBuild ==
    /\ NoSession
    /\ input \in {<< [depths |-> ds] >> : ds \in DepthStreams}
    /\ output = << >>

\* buildTreeFromFlat(flatNodes)
BuildTree ==
    /\ output = << >>
    /\ LET ds == input[1].depths
           nodes == [i \in DOMAIN ds |-> StreamNode(i, ds[i])]
       IN  output' = << [roots |-> IF ds = << >> THEN << >>
                                   ELSE BuildTreeFromFlat(nodes, ds)] >>
    /\ UNCHANGED <<process, input, platform, refs, lastTree, lastRawTree, globalIdCounter,
                   caps, latest, exec, batch, find>>

BuildNext == BuildTree

SpecBuild == InitBuild /\ [][BuildNext]_vars

\* ---------------------------------------------------------------------------
\* The default session of the convenience functions (index.ts)
\* ---------------------------------------------------------------------------

\* getTree, getForegroundTree, getCompact, getForegroundCompact, getOverview
ConvenienceFns == {"getTree", "getForegroundTree", "getCompact", "getForegroundCompact",
                   "getOverview"}

\* The frame of the default-session actions.
DefaultsFrame ==
    UNCHANGED <<msgIdCounter, cdp, helper, appTree, input, output, platform, refs, lastTree,
                lastRawTree, globalIdCounter, caps, latest, exec, batch, find>>

\* A convenience function is called and runs getDefaultSession up to its
\* await: `if (!_defaultSession)` is read, and when it is null Session.create()
\* is called and awaited; the assignment to _defaultSession comes after the
\* await.  Otherwise the function goes on with the session it read.
getDefaultSession(c, fn) ==
    /\ defaults.calls[c].pc = "idle"
    /\ \A o \in Callers : o < c => defaults.calls[o].pc # "idle"
    /\ defaults' =
           IF defaults.session = 0
           THEN [defaults EXCEPT !.created = @ + 1,
                                 !.calls[c] = [pc |-> "creating", fn |-> fn,
                                               session |-> defaults.created + 1]]
           ELSE [defaults EXCEPT !.calls[c] = [pc |-> "has", fn |-> fn,
                                               session |-> defaults.session]]
    /\ DefaultsFrame

\* Session.create() resolves: `_defaultSession = await Session.create()`
\* assigns the new session and getDefaultSession returns _defaultSession.
SessionCreated(c) ==
    /\ defaults.calls[c].pc = "creating"
    /\ defaults' = [defaults EXCEPT !.session = defaults.calls[c].session,
                                    !.calls[c].pc = "has"]
    /\ DefaultsFrame

\* Session.create() rejects (getAdapter throws): the convenience call rejects
\* and _defaultSession is not assigned.
SessionCreateRejects(c) ==
    /\ defaults.calls[c].pc = "creating"
    /\ defaults' = [defaults EXCEPT !.calls[c].pc = "failed"]
    /\ DefaultsFrame

\* The convenience function's `return session.capture(...)` on the session
\* getDefaultSession returned; every scope but overview stores a snapshot in
\* that session.
ConvenienceCapture(c) ==
    /\ defaults.calls[c].pc = "has"
    /\ defaults' =
           [defaults EXCEPT !.calls[c].pc = "done",
                            !.snapshot[defaults.calls[c].session] =
                                IF defaults.calls[c].fn = "getOverview" THEN @ ELSE c]
    /\ DefaultsFrame

InitDefaults == NoSession /\ input = << >> /\ output = << >>

DefaultsNext ==
    \/ \E c \in Callers, fn \in ConvenienceFns : getDefaultSession(c, fn)
    \/ \E c \in Callers : SessionCreated(c)
    \/ \E c \in Callers : SessionCreateRejects(c)
    \/ \E c \in Callers : ConvenienceCapture(c)

SpecDefaults == InitDefaults /\ [][DefaultsNext]_vars

\* ---------------------------------------------------------------------------
\* Properties
\* ---------------------------------------------------------------------------

\* The captures recorded in a tree's nodes.
TreeCaps(opt) == IF opt = <<>> THEN {} ELSE {n.src[1] : n \in Range(PreOrder(opt[1]))}

\* The captures recorded in the ref map's entries.
RefCaps == {refs[id].cap : id \in DOMAIN refs}

\* C1: in every state between two steps of the session, the ref map and both
\* retained trees come from the same capture, the one that stored its
\* snapshot last: no entry of the ref map and no node of either tree was
\* recorded by another capture, the trees are both absent or both present,
\* and the pruned tree is the pruning of the unpruned tree.
C1_TripleFromOneCapture ==
    /\ RefCaps \cup TreeCaps(lastRawTree) \cup TreeCaps(lastTree) \subseteq {latest}
    /\ lastRawTree = <<>> <=> latest = 0
    /\ lastTree = <<>> <=> latest = 0
    /\ latest # 0 =>
           \E detail \in Details : lastTree[1] = pruneTree(lastRawTree[1], detail, NoViewport)

\* A second capture has replaced a first one's snapshot, and all three parts
\* of the snapshot are non-empty.
C1_Witness ==
    /\ latest = 2
    /\ caps[1].pc = "done" /\ caps[1].ids # {}
    /\ refs # EmptyMap
    /\ lastRawTree # <<>> /\ lastRawTree[1] # <<>>
    /\ lastTree # <<>> /\ lastTree[1] # <<>>

\* An execute() call that has ended: returned ("done") or raised.
Executed == exec.op = "execute" /\ exec.pc \in {"done", "raised"}

Returned(res) == exec.pc = "done" /\ exec.result = << res >>

ElementActions == VALID_ACTIONS \ {"press_keys"}

\* C2 (as stated): once a capture has completed, an execute call dispatches
\* only to a native reference recorded by the capture that is the most recent
\* one at the dispatch, and a call whose ID is absent from the latest ref map
\* returns the unknown-element failure.
C2_OnlyLatestRefs ==
    /\ exec.invoked = "element" => exec.ref[1].cap = exec.capAtDispatch
    /\ (Executed /\ exec.capAtCall # 0 /\ ~exec.known) =>
           Returned(Failure(ErrUnknownElement(exec.id)))

\* C2 (amended): an execute call resolves its ID when it is called, against
\* the ref map of the capture that completed last before the call, and
\* dispatches to the reference it read then; a call with a valid element
\* action whose ID is absent from that map returns the unknown-element
\* failure and invokes no handler.
C2_ResolvedAtCall ==
    /\ (exec.op = "execute" /\ exec.route = "element") =>
           exec.known /\ exec.ref[1].cap = exec.capAtCall /\ exec.ref[1].cap # 0
    /\ (Executed /\ ~exec.known /\ exec.action \in ElementActions) =>
           Returned(Failure(ErrUnknownElement(exec.id))) /\ exec.invoked = "none"

\* An execute call was dispatched to the handler after a newer capture than
\* the one it resolved its ID against had completed.
C2_Witness ==
    /\ exec.invoked = "element"
    /\ exec.capAtCall # 0
    /\ exec.capAtDispatch # exec.capAtCall
    /\ exec.result[1].success

\* C7: every execute and pressKeys call ends by returning a result record; it
\* never raises.
C7_NeverRaises ==
    exec.pc \in {"done", "raised"} =>
        exec.pc = "done" /\ exec.result # NoResult /\ exec.result[1].success \in BOOLEAN

\* The call's params carry a value.
HasValue == exec.params.value # <<>> /\ exec.params.value[1] # JsNull

\* The call's params carry one of the four directions.
HasDirection ==
    /\ exec.params.direction # <<>>
    /\ exec.params.direction[1] \in
           {JsString("up"), JsString("down"), JsString("left"), JsString("right")}

\* The inputs for which the claim lets the element handler be invoked.
ValidInput ==
    /\ exec.action \in VALID_ACTIONS
    /\ exec.known
    /\ exec.action \in {"type", "setvalue"} => HasValue
    /\ exec.action = "scroll" => HasDirection

\* C8 (as stated): the handler's element entry is invoked only on a valid
\* action, a known ID, a value for type/setvalue and a direction for scroll;
\* every other execute call returns a failure without invoking the handler.
C8_HandlerOnlyOnValidInput ==
    /\ exec.invoked = "element" => ValidInput
    /\ (Executed /\ ~ValidInput) =>
           exec.pc = "done" /\ ~exec.result[1].success /\ exec.invoked = "none"

Mentions(error, word) == \E i \in DOMAIN error : error[i] = word

\* C8 (amended): the handler's element entry is invoked only on one of the
\* 15 element actions, an ID that was in the ref map when execute was
\* called, a non-null value for type/setvalue and a direction of the four for
\* scroll; every other call whose action is not press_keys invokes no
\* handler entry and returns a failure, or raises when it is a scroll on a
\* known ID whose direction cannot be serialised.  A press_keys call reaches
\* only the handler's key entry, and only with non-empty keys.
C8_ElementHandlerOnlyOnValidInput ==
    /\ exec.invoked = "element" => ValidInput /\ exec.action \in ElementActions
    /\ (Executed /\ ~ValidInput /\ exec.action # "press_keys") =>
           /\ exec.invoked = "none"
           /\ exec.pc = "done" => ~exec.result[1].success
           /\ exec.pc = "raised" =>
                  /\ exec.action = "scroll" /\ exec.known
                  /\ JSONstringify(exec.params.direction).throws
    /\ (Executed /\ exec.action = "press_keys") =>
           /\ exec.invoked \in {"none", "keys"}
           /\ exec.invoked = "keys" <=> ~Falsy(exec.params.keys)

\* The element handler ran a scroll, and it succeeded.
C8_Witness ==
    /\ Executed /\ exec.invoked = "element"
    /\ exec.action = "scroll" /\ exec.result[1].success

NoValue == exec.action \in {"type", "setvalue"} /\ ~HasValue

BadDirection == exec.action = "scroll" /\ ~HasDirection

\* C9 (as stated): every type/setvalue call without a value returns a failure
\* whose error mentions 'value', and every scroll call whose direction is not
\* one of the four returns the direction failure.
C9_InvalidParams ==
    /\ (Executed /\ NoValue) =>
           /\ exec.pc = "done" /\ ~exec.result[1].success
           /\ Mentions(exec.result[1].error, "value")
    /\ (Executed /\ BadDirection) =>
           /\ exec.pc = "done" /\ ~exec.result[1].success
           /\ Mentions(exec.result[1].error, "direction")

\* C9 (amended): on an ID that is in the ref map at the call, type/setvalue
\* without a (non-null) value returns the failure that names 'value', and
\* scroll with a direction that is not one of the four returns the failure
\* that names 'direction' and quotes the direction, or raises when the
\* direction cannot be serialised; on an ID that is not in the map these
\* calls return the unknown-element failure.  No handler is invoked.
C9_InvalidParamsOnKnownId ==
    /\ (Executed /\ NoValue /\ exec.known) =>
           /\ Returned(Failure(ErrValueRequired(exec.action)))
           /\ Mentions(exec.result[1].error, "value")
    /\ (Executed /\ BadDirection /\ exec.known) =>
           IF JSONstringify(exec.params.direction).throws THEN exec.pc = "raised"
           ELSE /\ Returned(Failure(ErrDirection(JSONstringify(exec.params.direction).text)))
                /\ Mentions(exec.result[1].error, "direction")
    /\ (Executed /\ (NoValue \/ BadDirection) /\ ~exec.known) =>
           Returned(Failure(ErrUnknownElement(exec.id)))
    /\ (Executed /\ (NoValue \/ BadDirection)) => exec.invoked = "none"

\* A type call on a known ID without a value returned the 'value' failure.
C9_Witness ==
    /\ Executed /\ exec.action = "type" /\ exec.known
    /\ exec.params.value = <<>>
    /\ exec.pc = "done" /\ Mentions(exec.result[1].error, "value")

Done(c) == caps[c].pc = "done"

C4_IdsContiguousPreOrder ==
    lastRawTree # <<>> =>
        TreeIds(lastRawTree[1]) = [i \in 1..Len(PreOrder(lastRawTree[1])) |-> i - 1]

\* C5: in the tree a capture returned the roots appear in the order of the
\* input windows (every window list of the model is ascending) and the node
\* IDs increase in pre-order over the roots, however the per-window walks
\* interleaved.
C5_IdsIncreaseInInputOrder ==
    lastRawTree # <<>> =>
        LET roots == lastRawTree[1]
            ids == TreeIds(roots)
        IN  /\ \A i, j \in DOMAIN roots : i < j => roots[i].src[2] < roots[j].src[2]
            /\ \A i, j \in DOMAIN ids : i < j => ids[i] < ids[j]

\* C6: after a capture every node ID of the returned tree has an entry in
\* the ref map, and the entry is the native reference of that node.
C6_RefsMatchTree ==
    lastRawTree # <<>> =>
        \A n \in Range(PreOrder(lastRawTree[1])) :
            /\ n.id \in DOMAIN refs
            /\ refs[n.id] = NativeRef(n.src[1], n.src[2], n.src[3])

\* The result the batch must report for a spec whose outcome does not depend
\* on the handler: <<>> when it does.
FixedResult(spec) ==
    CASE spec.action = "wait" -> << Waited(spec.ms) >>
      [] spec.action = "press_keys" /\ spec.params.keys = <<>> -> << Failure(ErrBatchKeys) >>
      [] spec.action # "press_keys" /\ spec.element_id = <<>> ->
             << Failure(ErrBatchElementId(spec.action)) >>
      [] OTHER -> <<>>

\* C10: a batchExecute call ends by returning results r1..rk, k <= n, with ri
\* the result of spec i, r1..r(k-1) successes, the specs executed in list
\* order and none after position k, and k = n when no result is a failure.
C10_BatchPrefix ==
    batch.pc \in {"done", "raised"} =>
        LET k == Len(batch.results)
            n == Len(batch.specs)
        IN  /\ batch.pc = "done"
            /\ k <= n
            /\ \A i \in 1..k : FixedResult(batch.specs[i]) \in {<<>>, << batch.results[i] >>}
            /\ \A i \in 1..(k - 1) : batch.results[i].success
            /\ \A i, j \in DOMAIN batch.ran : i < j => batch.ran[i] < batch.ran[j]
            /\ \A i \in DOMAIN batch.ran : batch.ran[i] <= k
            /\ (\A i \in 1..k : batch.results[i].success) => k = n

\* C11: a findElements() call on a session without a raw tree starts exactly
\* one capture() call, for the foreground window, and searches nothing until
\* that call returns; when it returns, the tree searched is the unpruned tree
\* that call stored.  On a session with a raw tree the call starts no
\* capture() and searches the raw tree the session holds.
C11_FindCapturesOnlyWhenFresh ==
    [][/\ (find.pc = "idle" /\ find'.pc # "idle") =>
            IF lastRawTree = << >>
            THEN /\ find'.pc = "capture"
                 /\ find'.searched = << >>
                 /\ Cardinality({c \in Caps : caps'[c].pc # caps[c].pc}) = 1
                 /\ caps[find'.cap].pc = "idle"
                 /\ caps'[find'.cap].pc = "walk"
                 /\ caps'[find'.cap].windows = << ForegroundWin >>
            ELSE /\ find'.pc = "done"
                 /\ find'.cap = 0
                 /\ caps' = caps
                 /\ find'.searched = lastRawTree
                 /\ lastRawTree' = lastRawTree
       /\ (find.pc = "capture" /\ find'.pc = "done") =>
            /\ caps[find.cap].pc = "walk"
            /\ caps'[find.cap].pc = "done"
            /\ Cardinality({c \in Caps : caps'[c].pc # caps[c].pc}) = 1
            /\ latest' = find.cap
            /\ find'.searched = lastRawTree'
            /\ lastRawTree' = << CapturedTree(find.cap) >>
            /\ TreeCaps(find'.searched) \subseteq {find.cap}
       /\ find.pc = "capture" =>
            find'.pc \in {"capture", "done", "rejected"} /\ find'.cap = find.cap
      ]_vars

\* A findElements() call that was the second capture() of a fresh session
\* has searched a tree with nodes and returned some of them.
C11_Witness ==
    /\ find.pc = "done"
    /\ find.cap = 2
    /\ find.searched # << >>
    /\ TreeCaps(find.searched) = {2}
    /\ find.results # << >>

\* A findElements() call has searched the raw tree of an earlier capture()
\* whose pruned tree differs from it.
C11_WitnessRetained ==
    /\ find.pc = "done"
    /\ find.cap = 0
    /\ find.searched = lastRawTree
    /\ lastTree # lastRawTree

\* The windows that have nodes in a tree.
TreeWindows(forest) == {n.src[2] : n \in Range(PreOrder(forest))}

\* The windows of a capture() call whose walk has not thrown.
Walked(cap) == {cap.windows[s] : s \in DOMAIN cap.windows \ cap.lost}

\* C12: a window whose walk throws never makes the capture fail, and the
\* tree the capture stores holds nodes of exactly the windows whose walk did
\* not throw.
C12_WindowFailureSwallowed ==
    [][\A c \in Caps :
          /\ caps'[c].pc = "failed" => caps'[c].lost = {}
          /\ (caps[c].pc = "walk" /\ caps'[c].pc = "done") =>
                 TreeWindows(lastRawTree'[1]) = Walked(caps[c])
      ]_vars

\* A node of a tree with its parent (<<>>: a root) and the number of children
\* its parent has (of roots, for a root).
RECURSIVE Placed(_, _)
Placed(children, parent) ==
    UNION {{[node |-> children[i], parent |-> parent, siblings |-> Len(children)]}
              \cup Placed(children[i].children, << children[i] >>) :
           i \in DOMAIN children}

Ids(forest) == Range(TreeIds(forest))

\* The skip rules as the specification lists them.
SkipRule(pl) ==
    LET n == pl.node
        meaningful == \E i \in DOMAIN n.actions : n.actions[i] # "focus"
    IN  \/ n.role \in {"scrollbar", "separator", "titlebar", "tooltip", "status"}
        \/ n.bounds # NoBounds /\ (n.bounds[3] = 0 \/ n.bounds[4] = 0)
        \/ n.role = "img" /\ n.name = ""
        \/ n.role = "text" /\ n.name = ""
        \/ n.role = "text" /\ pl.parent # << >> /\ pl.parent[1].name # ""
              /\ pl.siblings = 1
        \/ "offscreen" \in n.states /\ ~meaningful

\* The hoist rules as the specification lists them.
HoistRule(n) ==
    \/ n.role \in {"generic", "region"} /\ n.name = ""
    \/ n.role = "group" /\ n.name = ""
          /\ ~\E i \in DOMAIN n.actions : n.actions[i] # "focus"

Pruned(detail) == output # << >> /\ output[1].detail = detail

\* C13 (as stated): after standard pruning, no node that matches a skip rule
\* and no descendant of such a node is in the output.
C13_SkippedWithDescendants ==
    Pruned("standard") =>
        \A pl \in Placed(input[1].tree, << >>) :
            SkipRule(pl) => Ids(<< pl.node >>) \cap Ids(output[1].tree) = {}

\* C13 (amended): after standard pruning, no node that matches a skip rule is
\* in the output, and none of its descendants is either unless the node also
\* matches a hoist rule.
C13_SkippedUnlessHoisted ==
    Pruned("standard") =>
        \A pl \in Placed(input[1].tree, << >>) :
            SkipRule(pl) =>
                /\ pl.node.id \notin Ids(output[1].tree)
                /\ ~HoistRule(pl.node) =>
                       Ids(<< pl.node >>) \cap Ids(output[1].tree) = {}

\* Standard pruning has dropped a chrome node that is not hoistable together
\* with a child of it that matches no skip rule, and has kept another node.
C13_Witness ==
    /\ Pruned("standard")
    /\ output[1].tree # << >>
    /\ \E pl \in Placed(input[1].tree, << >>) :
          /\ SkipRule(pl)
          /\ ~HoistRule(pl.node)
          /\ \E ch \in Placed(pl.node.children, << pl.node >>) :
                ~SkipRule(ch) /\ ch.node.id \notin Ids(output[1].tree)

\* The node with the given ID in a forest.
NodeById(forest, id) == CHOOSE n \in Range(PreOrder(forest)) : n.id = id

IdsOfChildren(n) == [i \in DOMAIN n.children |-> n.children[i].id]

Increasing(ids) == \A i, j \in DOMAIN ids : i < j => ids[i] < ids[j]

\* C14: at every detail level the nodes of the output are nodes of the input
\* in the input's pre-order (the IDs of the input number its pre-order).
\* After standard pruning, where a hoisted node has a parent that is in the
\* output, each retained child of the hoisted node is a child of that parent,
\* after every retained sibling that preceded the hoisted node, before every
\* retained sibling that followed it, and in the original order among the
\* hoisted node's children.
C14_OrderPreserved ==
    output # << >> =>
        /\ Increasing(TreeIds(output[1].tree))
        /\ Ids(output[1].tree) \subseteq Ids(input[1].tree)
        /\ Pruned("standard") =>
             \A pl \in Placed(input[1].tree, << >>) :
                (/\ HoistRule(pl.node)
                 /\ pl.parent # << >>
                 /\ pl.parent[1].id \in Ids(output[1].tree)) =>
                    LET kids == IdsOfChildren(NodeById(output[1].tree, pl.parent[1].id))
                        mine == {pl.node.children[i].id : i \in DOMAIN pl.node.children}
                                    \cap Ids(output[1].tree)
                    IN  /\ mine \subseteq Range(kids)
                        /\ \A i, j \in DOMAIN kids :
                              (kids[i] \in mine /\ kids[j] \notin mine) =>
                                  (i < j <=> pl.node.id < kids[j])
                        /\ Increasing(kids)

\* Standard pruning has hoisted a node with two retained children between a
\* retained sibling before it and a retained sibling after it.
C14_Witness ==
    /\ Pruned("standard")
    /\ \E pl \in Placed(input[1].tree, << >>) :
          /\ HoistRule(pl.node)
          /\ pl.parent # << >>
          /\ pl.parent[1].id \in Ids(output[1].tree)
          /\ LET kids == IdsOfChildren(NodeById(output[1].tree, pl.parent[1].id))
                 mine == {pl.node.children[i].id : i \in DOMAIN pl.node.children}
             IN  /\ Cardinality(mine \cap Range(kids)) = 2
                 /\ \E i, j \in DOMAIN kids :
                       /\ kids[i] \notin mine /\ kids[i] < pl.node.id
                       /\ kids[j] \notin mine /\ kids[j] > pl.node.id

\* The children pruneNode omits because they lie outside the viewport, as
\* its recursion meets them: the ID of the child, of the node whose loop met
\* it, the direction, and the size of the child's subtree.
RECURSIVE Omitted(_, _, _, _)
Omitted(node, parent, siblings, viewport) ==
    IF shouldHoist(node)
    THEN UNION {Omitted(node.children[i], parent, Len(node.children), viewport) :
                i \in DOMAIN node.children}
    ELSE IF shouldSkip(node, parent, siblings) THEN {}
    ELSE LET cv == IF isScrollable(node) /\ node.bounds # NoBounds
                   THEN intersectViewports(node.bounds, viewport)
                   ELSE viewport
         IN  UNION {LET child == node.children[i]
                    IN  IF /\ cv # NoViewport
                           /\ child.bounds # NoBounds
                           /\ isOutsideViewport(child.bounds, cv)
                        THEN {[child |-> child.id, by |-> node.id,
                               dir |-> clipDirection(child.bounds, cv),
                               count |-> countNodes(<< child >>)]}
                        ELSE Omitted(child, << node >>, Len(node.children), cv) :
                    i \in DOMAIN node.children}

OmittedIn(tree, screen) ==
    UNION {Omitted(tree[i], NoParent, Len(tree), screen) : i \in DOMAIN tree}

RECURSIVE SumOf(_, _)
\* The sum of f over the set S.
SumOf(f(_), S) ==
    IF S = {} THEN 0
    ELSE LET x == CHOOSE y \in S : TRUE IN f(x) + SumOf(f, S \ {x})

Directions == {"above", "below", "left", "right"}

\* The _clipped counter of a node for a direction (0 without _clipped).
Counter(n, dir) == IF n.clipped = NoClip THEN 0 ELSE n.clipped[dir]

\* C15: after standard pruning, for every node whose loop omitted children
\* as outside the viewport and for every direction, the node is in the output
\* and its _clipped counter for the direction is the number of nodes in the
\* subtrees of the children omitted in that direction; no other node carries
\* a counter; so the counters of the output add up to the number of input
\* nodes omitted by clipping.
C15_ClippedCounted ==
    Pruned("standard") =>
        LET om == OmittedIn(input[1].tree, input[1].screen)
            out == Range(PreOrder(output[1].tree))
            Count(r) == r.count
            Total(n) == SumOf(LAMBDA dir : Counter(n, dir), Directions)
        IN  /\ \A r \in om : \E n \in out : n.id = r.by
            /\ \A n \in out : \A dir \in Directions :
                  Counter(n, dir) = SumOf(Count, {r \in om : r.by = n.id /\ r.dir = dir})
            /\ SumOf(Total, out) = SumOf(Count, om)

Serialized == output # << >> /\ output[1].fn = "serializeCompact"

\* options.maxChars ?? MAX_OUTPUT_CHARS
Budget == IF input[1].maxChars = << >> THEN MAX_OUTPUT_CHARS ELSE input[1].maxChars[1]

\* C16 (as stated): for every envelope and every maxChars, the string
\* serializeCompact returns is no longer than maxChars plus the length of
\* the truncation notice.
C16_LengthWithinBudget ==
    Serialized => output[1].text.length <= Budget + TRUNCATION_NOTICE_LENGTH

\* C16 (amended): the same for every maxChars above 0.
C16_LengthWithinPositiveBudget ==
    (Serialized /\ Budget > 0) => output[1].text.length <= Budget + TRUNCATION_NOTICE_LENGTH

\* serializeCompact has cut an output back to a newline, and the notice took
\* the string beyond maxChars.
C16_Witness ==
    /\ Serialized
    /\ Budget > 0
    /\ output[1].text.notice
    /\ output[1].text.lines # << >>
    /\ output[1].text.length > Budget

Formatted == output # << >> /\ output[1].fn = "formatLine"

\* C17: the line formatLine returns for a node has a bounds field only if
\* the node has an action other than focus.
C17_BoundsOnlyWhenActionable ==
    Formatted =>
        ((\E i \in DOMAIN output[1].line : output[1].line[i].field = "bounds")
            => \E i \in DOMAIN output[1].node[1].actions :
                   output[1].node[1].actions[i] # "focus")

Searched == output # << >> /\ "results" \in DOMAIN output[1]

\* The role filter the caller supplied: the role option, else the role
\* parsed from the query.
SuppliedRole ==
    IF input[1].options.role # << >> THEN input[1].options.role
    ELSE IF input[1].options.query # << >> THEN parseQuery(input[1].options.query[1]).role
    ELSE << >>

\* The roles a filter denotes: those resolveRoles gives it, none if it gives
\* it none.
Denoted(role) == IF resolveRoles(role) = << >> THEN {} ELSE resolveRoles(role)[1]

\* C18: when searchTree is given a role filter, the role of every node it
\* returns is one of the roles the filter denotes.
C18_RoleFilterHolds ==
    (Searched /\ SuppliedRole # << >>) =>
        \A i \in DOMAIN output[1].results :
            output[1].results[i].node.role \in Denoted(SuppliedRole[1])

Pressed == input # << >> /\ output # << >> /\ "combo" \in DOMAIN input[1]

\* The modifier a piece of a combo spells, if it spells one.
Spelled(piece) ==
    CASE piece \in {"ctrl", " Ctrl "} -> << "ctrl" >>
      [] piece = "shift" -> << "shift" >>
      [] piece = "cmd" -> << "meta" >>
      [] OTHER -> << >>

\* The modifiers of a combo all of whose non-empty pieces spell modifiers, in
\* the order they are written; empty when the combo has a main key.
RECURSIVE OnlyModifiers(_)
OnlyModifiers(combo) ==
    IF combo = << >> THEN << >>
    ELSE IF Head(combo) = "" THEN OnlyModifiers(Tail(combo))
    ELSE IF Spelled(Head(combo)) = << >> \/ \E i \in DOMAIN Tail(combo) :
                                               Tail(combo)[i] # "" /\ Spelled(Tail(combo)[i]) = << >>
    THEN << >>
    ELSE Spelled(Head(combo)) \o OnlyModifiers(Tail(combo))

\* C20: on every platform's key-press path, a combo that contains modifiers
\* but no main key sends the modifiers themselves as the main keys, with no
\* modifier mask applied: macOS posts the modifiers' keycodes with flags 0,
\* Windows sends them in one SendInput call as the main keys, Linux hands
\* them to xdotool as the keys, and the web sends their key events with the
\* modifiers field 0.
C20_ModifiersSentAsMainKeys ==
    (Pressed /\ OnlyModifiers(input[1].combo) # << >>) =>
        LET mods == OnlyModifiers(input[1].combo)
            sent == output[1].sent
        IN  CASE platform = "macos" ->
                     sent = << [command |-> "key_combo",
                                keys |-> [i \in DOMAIN mods |-> MOD_VK(mods[i])[1]],
                                flags |-> 0] >>
              [] platform = "windows" ->
                     /\ Len(sent) = 1
                     /\ Len(sent[1]) = 2 * Len(mods)
                     /\ \A i \in DOMAIN mods :
                            /\ sent[1][i].vk = MOD_TO_VK(mods[i])[1]
                            /\ sent[1][i].flags \in {0, 1}
                            /\ sent[1][2 * Len(mods) + 1 - i].vk = MOD_TO_VK(mods[i])[1]
                            /\ sent[1][2 * Len(mods) + 1 - i].flags \in {2, 3}
              [] platform = "linux" ->
                     /\ Len(sent) = 1
                     /\ sent[1].keys = [i \in DOMAIN mods |-> XDO_MOD_MAP(mods[i])[1]]
              [] platform = "web" ->
                     /\ output[1].success => Len(sent) = 2 * Len(mods)
                     /\ \A i \in DOMAIN sent :
                            /\ sent[i].modifiers = 0
                            /\ i <= Len(mods) =>
                                   /\ sent[i].type = "keyDown"
                                   /\ sent[i].key = CDP_MODIFIER_MAP(mods[i])[1].key

\* C21: the CDP message IDs are strictly increasing over all sends of the
\* process, on whatever socket, and every command that a message completed
\* was completed by the response carrying its own message ID, sent on its
\* own socket's connection, whatever events and other responses arrived.
C21_IdsCorrelated ==
    /\ \A i, j \in DOMAIN cdp.requests :
           i < j => cdp.requests[i].msgId < cdp.requests[j].msgId
    /\ \A i \in DOMAIN cdp.requests :
           LET req == cdp.requests[i]
           IN  /\ req.msgId >= 1
               /\ (req.promise = "resolved" \/ req.reason = "error") =>
                      /\ req.settledBy # << >>
                      /\ req.settledBy[1].id = << req.msgId >>
                      /\ req.answered
               /\ (req.promise = "pending" \/ req.reason = "timeout") =>
                      req.settledBy = << >>

\* Three commands were sent, two on one socket and one on another; the
\* second was answered first and is resolved while the first, on the same
\* socket, is still pending after that response and an event passed its
\* listener, and the third was answered with an error.
C21_Witness ==
    /\ Len(cdp.requests) = 3
    /\ cdp.requests[1].ws = cdp.requests[2].ws
    /\ cdp.requests[3].ws # cdp.requests[1].ws
    /\ cdp.events = 1
    /\ cdp.requests[1].promise = "pending" /\ cdp.requests[1].listener
    /\ cdp.requests[2].promise = "resolved"
    /\ cdp.requests[3].reason = "error"

\* What C22 says of every state: a settled request has no listener and no
\* timer, a pending one has both, a resolved one was answered without error
\* and a rejected one was answered with an error or timed out.
C22_Settled ==
    \A i \in DOMAIN cdp.requests :
        LET req == cdp.requests[i]
        IN  /\ req.promise \in {"pending", "resolved", "rejected"}
            /\ req.promise = "pending" <=> req.listener
            /\ req.promise = "pending" <=> req.timer
            /\ req.promise = "resolved" => req.settledBy # << >> /\ ~req.settledBy[1].error
            /\ req.promise = "rejected" =>
                   \/ req.reason = "timeout" /\ req.settledBy = << >>
                   \/ req.reason = "error" /\ req.settledBy # << >> /\ req.settledBy[1].error

\* What C22 says of every step: when a request times out, every other
\* request is as it was.
C22_TimeoutAlone ==
    \A i \in DOMAIN cdp.requests :
        (cdp.requests[i].promise = "pending" /\ cdp'.requests[i].reason = "timeout") =>
            \A o \in DOMAIN cdp.requests : o # i => cdp'.requests[o] = cdp.requests[o]

C23_HelperNeverPartial ==
    /\ \A c \in Callers : helper.callers[c].ran \in {"", "complete"}
    /\ (\A c \in Callers : helper.callers[c].pc # "compiling") =>
           helper.file.state \in {"absent", "complete"}

\* A tree that looks uninitialised: fewer nodes than the threshold, or chrome
\* roles and no Document.
TreeSparse(tree) ==
    LET nodes == PreOrder(tree)
    IN  \/ Len(nodes) < SPARSE_TREE_THRESHOLD
        \/ /\ \E i \in DOMAIN nodes : nodes[i].role \in {"toolbar", "tab"}
           /\ \A i \in DOMAIN nodes : nodes[i].role # "document"

\* The tree one walk of the window w builds, before or after the poke.
WalkTree(c, w, poked) ==
    BuildTreeFromFlat(HelperNodes(Shown(w, poked), c, w), Depths(Shown(w, poked)))

\* The step in which the captureTree call of capture c returns its tree.
Returns(c) == caps[c].pc = "walk" /\ caps'[c].pc = "done"

\* The step in which the captureTree call of capture c starts to walk again.
Recaptures(c) == caps[c].pc = "walk" /\ caps'[c].pc = "walk" /\ caps'[c].k < caps[c].k

\* C24 as stated: a Windows captureTree call whose tree is sparse pokes the
\* window and walks again, however many windows it was given (one at least);
\* it does so at most once and returns the second walk's result.
C24_SparseTreeRecaptured ==
    [][\A c \in Caps :
          /\ Returns(c) =>
                 /\ (~caps[c].poked /\ caps[c].windows # << >>) =>
                        ~TreeSparse(lastRawTree'[1])
                 /\ caps[c].poked =>
                        lastRawTree'[1] \in {WalkTree(c, caps[c].windows[1], TRUE), << >>}
          /\ Recaptures(c) => ~caps[c].poked /\ caps'[c].poked
      ]_vars

\* C24: a Windows captureTree call for exactly one window whose tree has
\* fewer than 30 nodes, or shows chrome roles and no Document role, pokes the
\* window once and walks it again; no call walks again more than once, and
\* the call returns the second walk's result, sparse or not.  A call for
\* another number of windows never walks again.
C24_SingleWindowRecaptured ==
    [][\A c \in Caps :
          /\ Returns(c) =>
                 /\ (~caps[c].poked /\ Len(caps[c].windows) = 1) =>
                        /\ ~TreeSparse(lastRawTree'[1])
                        /\ lastRawTree'[1] = WalkTree(c, caps[c].windows[1], FALSE)
                 /\ caps[c].poked =>
                        /\ Len(caps[c].windows) = 1
                        /\ lastRawTree'[1] \in {WalkTree(c, caps[c].windows[1], TRUE), << >>}
          /\ Recaptures(c) =>
                 /\ ~caps[c].poked /\ caps'[c].poked
                 /\ Len(caps[c].windows) = 1
                 /\ caps'[c].tree = << >> /\ caps'[c].refs = EmptyMap
      ]_vars

\* A foreground capture has returned a sparse tree: the window first showed
\* thirty nodes with a toolbar and no document, was poked, and showed two
\* nodes to the second walk.
C24_Witness ==
    /\ appTree = << [first |-> LargeFlat(TRUE, FALSE),
                     second |-> NativeFlat("windows", ForegroundWin)] >>
    /\ caps[1].pc = "done"
    /\ latest = 1
    /\ lastRawTree = << WalkTree(1, ForegroundWin, TRUE) >>
    /\ TreeSparse(lastRawTree[1])

\* The stream position of the nearest node before position i whose depth is
\* strictly smaller (0: there is none).
NearestShallower(ds, i) ==
    LET before == {j \in 1..(i - 1) : ds[j] < ds[i]}
    IN  IF before = {} THEN 0 ELSE CHOOSE j \in before : \A k \in before : k <= j

\* The depths at which a pre-order walk finds the nodes of a forest.
RECURSIVE WalkDepths(_, _)
WalkDepths(forest, d) ==
    IF forest = << >> THEN << >>
    ELSE << d >> \o WalkDepths(Head(forest).children, d + 1) \o WalkDepths(Tail(forest), d)

\* A stream a pre-order walk of some forest emits: it starts at depth 0 and
\* no node is more than one level below the node before it.
WalkedStream(ds) ==
    /\ ds # << >> => ds[1] = 0
    /\ \A i \in 2..Len(ds) : ds[i] <= ds[i - 1] + 1

\* C25: buildTreeFromFlat turns a depth-annotated pre-order stream into a
\* forest in which the parent of every node is the nearest preceding node of
\* strictly smaller depth (the node is a root if there is none), siblings are
\* in stream order, and a pre-order walk yields the nodes of the stream in
\* stream order, at their annotated depths when the stream is one that a
\* walk emits.
C25_ForestFromStream ==
    (input # << >> /\ output # << >> /\ "depths" \in DOMAIN input[1]) =>
        LET ds == input[1].depths
            roots == output[1].roots
            walk == PreOrder(roots)
        IN  /\ Len(walk) = Len(ds)
            /\ \A i \in DOMAIN walk : walk[i] = [StreamNode(i, ds[i]) EXCEPT
                                                      !.children = walk[i].children]
            /\ \A i \in DOMAIN roots : NearestShallower(ds, roots[i].id) = 0
            /\ Increasing(IdsOfChildren([children |-> roots]))
            /\ \A i \in DOMAIN walk :
                   /\ Increasing(IdsOfChildren(walk[i]))
                   /\ \A k \in DOMAIN walk[i].children :
                          NearestShallower(ds, walk[i].children[k].id) = walk[i].id
            /\ WalkedStream(ds) => WalkDepths(roots, 0) = ds

\* A stream of five nodes with two roots, a grandchild, and a node that
\* returns two levels up has been reassembled.
C25_Witness ==
    /\ input = << [depths |-> <<0, 1, 2, 1, 0>>] >>
    /\ output # << >>
    /\ Len(output[1].roots) = 2
    /\ Len(output[1].roots[1].children) = 2
    /\ Len(output[1].roots[1].children[1].children) = 1

\* The capture() calls that took the overview path.
Overviews == {c \in Caps : caps[c].pc = "overview"}

\* C26: a capture with scope overview, and a desktop capture that falls back
\* to the window overview, leaves the pruned tree, the unpruned tree and the
\* ref map as they were: no step of such a call changes them, a session that
\* made only such calls is still fresh, and a findElements() call made after
\* one searches the tree of the last tree-walking capture, whose IDs the ref
\* map still holds.
C26_OverviewLeavesSnapshot ==
    /\ [][\A c \in Caps :
              (caps'[c] # caps[c] /\ "overview" \in {caps[c].pc, caps'[c].pc}) =>
                  /\ refs' = refs
                  /\ lastTree' = lastTree
                  /\ lastRawTree' = lastRawTree
                  /\ latest' = latest
                  /\ find' = find
          ]_vars
    /\ []((\A c \in Caps : caps[c].pc \in {"idle", "overview"}) =>
              lastTree = << >> /\ lastRawTree = << >> /\ refs = EmptyMap)
    /\ []((Overviews # {} /\ latest # 0) =>
              /\ TreeCaps(lastRawTree) \subseteq {latest}
              /\ RefCaps \subseteq {latest}
              /\ (find.pc = "done" /\ find.cap = 0 /\ find.from = latest) =>
                     find.searched = lastRawTree)

\* After a tree-walking capture and an overview capture, findElements() has
\* found nodes in the first capture's tree, and the ref map holds its IDs.
C26_Witness ==
    /\ caps[1].pc = "done"
    /\ caps[2].pc = "overview"
    /\ latest = 1
    /\ refs # EmptyMap
    /\ RefCaps = {1}
    /\ find.pc = "done" /\ find.cap = 0 /\ find.from = 1
    /\ find.results # << >>

\* C27: a capture() that raises (screen information, window enumeration or
\* captureTree failed) leaves the pruned tree, the unpruned tree and the ref
\* map unchanged, and the ref map is replaced only in the step of a capture
\* that returns, which replaces both trees by the tree it walked.
C27_RaisingCaptureStoresNothing ==
    /\ [][\A c \in Caps :
              (caps[c].pc # "failed" /\ caps'[c].pc = "failed") =>
                  /\ refs' = refs
                  /\ lastTree' = lastTree
                  /\ lastRawTree' = lastRawTree
                  /\ latest' = latest
          ]_vars
    /\ [][refs' # refs =>
              \E c \in Caps :
                  /\ caps[c].pc = "walk" /\ caps'[c].pc = "done"
                  /\ refs' = caps[c].refs
                  /\ lastRawTree' = << CapturedTree(c) >>
                  /\ \E detail \in Details :
                         lastTree' = << pruneTree(CapturedTree(c), detail, NoViewport) >>
          ]_vars
    /\ [](\A c \in Caps : caps[c].pc = "failed" => latest # c)

\* The second capture raised after the first one stored its snapshot, which
\* the session still holds.
C27_Witness ==
    /\ caps[1].pc = "done"
    /\ caps[2].pc = "failed"
    /\ latest = 1
    /\ refs # EmptyMap
    /\ RefCaps = {1}
    /\ TreeCaps(lastRawTree) = {1}

\* C28: a Linux capture that overlapped another capture of the process
\* returns a tree whose IDs are pairwise distinct and a ref map whose entries
\* are the native references of its own nodes.
C28_OverlappingLinuxCaptures ==
    (platform = "linux" /\ lastRawTree # << >> /\ latest # 0 /\ caps[latest].overlapped) =>
        LET nodes == PreOrder(lastRawTree[1])
        IN  /\ \A i, j \in DOMAIN nodes : i # j => nodes[i].id # nodes[j].id
            /\ \A i \in DOMAIN nodes :
                   /\ nodes[i].id \in DOMAIN refs
                   /\ refs[nodes[i].id] = NativeRef(nodes[i].src[1], nodes[i].src[2], nodes[i].src[3])

\* The sessions the convenience calls that obtained one operate on.
DefaultSessionsInUse ==
    {defaults.calls[c].session : c \in {x \in Callers : defaults.calls[x].pc \in {"has", "done"}}}

\* C29: the convenience calls, concurrent first calls included, create one
\* default session, every call that obtained a session operates on that one,
\* and the capture of a call that returned is stored in the session the
\* following calls use.
C29_OneDefaultSession ==
    /\ Cardinality(DefaultSessionsInUse) <= 1
    /\ \A c \in Callers :
           (defaults.calls[c].pc = "done" /\ defaults.calls[c].fn # "getOverview") =>
               defaults.snapshot[defaults.session] # 0

\* The keys of the CDP modifier table.
CdpModifierKeys ==
    {CDP_MODIFIER_MAP(m)[1].key : m \in {x \in {"ctrl", "alt", "shift", "meta"} : CDP_MODIFIER_MAP(x) # << >>}}

\* C30: when the web key press has returned, every modifier keyDown it sent
\* and the browser acknowledged is followed by a keyUp of the same key, also
\* when a later request failed or timed out.
C30_ModifiersReleased ==
    (platform = "web" /\ output # << >>) =>
        LET sent == output[1].sent
        IN  \A i \in DOMAIN sent :
                (/\ sent[i].type = "keyDown"
                 /\ sent[i].key \in CdpModifierKeys
                 /\ (output[1].success \/ i < Len(sent))) =>
                    \E j \in DOMAIN sent :
                        j > i /\ sent[j].type = "keyUp" /\ sent[j].key = sent[i].key

====
